---- MODULE Spec2Model ----
(***************************************************************************)
(* State-machine model of the font registry (MultiFontManager) and the     *)
(* glyph metrics cache (FontMetricsCache) of html-layout-parser.           *)
(*                                                                         *)
(* The FreeType library is an external collaborator.  A typeface binary is *)
(* abstracted by a content tag; everything FreeType answers about a face   *)
(* (does it parse, its family name, which glyphs it has, their advances)   *)
(* is a function of that tag, as it is a function of the bytes in reality. *)
(***************************************************************************)
EXTENDS Integers, Sequences, FiniteSets, TLC

VARIABLES
    m_library,              \* FT_Library is non-null
    m_fonts,                \* std::map<int, FontEntry>
    m_nextFontId,
    m_defaultFontId,
    m_fontInstances,        \* std::map<uint64_t, FontInstance>
    m_nextFontHandle,
    m_memoryWarningIssued,
    m_fontCaches,           \* FontMetricsCache: fontId -> (key -> width)
    m_hits,
    m_misses,
    liveFaces,              \* FT_Face objects created and not yet FT_Done_Face'd
    liveBuffers,            \* heap buffers of std::vector<uint8_t> font data
    pc,                     \* position inside a running operation ("idle" between calls)
    frame,                  \* locals of the running operation
    last,                   \* the most recent completed call and what it returned
    written,                \* history: cache keys set since they were last cleared
    issued,                 \* history: typeface ids returned by successful loads
    g_lastParseResult,      \* ParseResult of the most recent parseHTML
    g_lastMetrics,          \* ParseMetrics of the most recent parseHTML
    g_isDebug               \* debug mode

vars ==
    << m_library, m_fonts, m_nextFontId, m_defaultFontId, m_fontInstances,
       m_nextFontHandle, m_memoryWarningIssued, m_fontCaches, m_hits, m_misses,
       liveFaces, liveBuffers, pc, frame, last, written, issued, g_lastParseResult,
       g_lastMetrics, g_isDebug >>

registryVars ==
    << m_library, m_fonts, m_nextFontId, m_defaultFontId, m_fontInstances,
       m_nextFontHandle, m_memoryWarningIssued >>

cacheVars ==
    << m_fontCaches, m_hits, m_misses >>

heapVars ==
    << liveFaces, liveBuffers >>

ctlVars ==
    << pc, frame >>

parserVars ==
    << g_lastParseResult, g_lastMetrics, g_isDebug >>

----------------------------------------------------------------------------
(* Bounds of the model *)

MaxFontId ==
    3

MaxHandle ==
    1

MaxQueries ==
    2

(* Program constants *)

MEMORY_WARNING_THRESHOLD ==
    52428800

NOT_CACHED ==
    -1

(* Payload byte counts used by the typeface binaries of the model *)

SmallBytes ==
    1024

BigBytes ==
    31457280

----------------------------------------------------------------------------
(* Generic helpers for std::map *)

EmptyMap ==
    [k \in {} |-> 0]

MapPut(m, k, v) ==
    [x \in (DOMAIN m) \cup {k} |-> IF x = k THEN v ELSE m[x]]

MapErase(m, ks) ==
    [x \in (DOMAIN m) \ ks |-> m[x]]

SetMin(S) ==
    CHOOSE x \in S : \A y \in S : x <= y

(* C++ int division by two truncates toward zero *)
HalfOf(n) ==
    IF n >= 0 THEN n \div 2 ELSE -((-n) \div 2)

----------------------------------------------------------------------------
(* The typeface binaries a caller may hand to loadFont, and what FreeType  *)
(* answers about them.                                                     *)

Contents ==
    {"junk", "latin", "cjk"}

ContentBytes(c) ==
    CASE c = "junk"  -> SmallBytes
      [] c = "latin" -> SmallBytes
      [] c = "sym"   -> SmallBytes
      [] c = "cjk"   -> BigBytes
      [] OTHER       -> 0

(* caller-side buffers: the pointer may be null, the size may be zero *)
PayloadsOf(contents) ==
    { [nonnull |-> FALSE, size |-> SmallBytes, content |-> "junk"],
      [nonnull |-> TRUE,  size |-> 0,          content |-> ""] }
    \cup { [nonnull |-> TRUE, size |-> ContentBytes(c), content |-> c] : c \in contents }

Payloads ==
    PayloadsOf({"junk", "cjk"})

(* FT_New_Memory_Face succeeds *)
FTParses(c) ==
    c \in {"latin", "cjk", "sym"}

(* face->family_name, <<>> when the face has none *)
FTFamilyName(c) ==
    IF c = "latin" THEN <<"L", "t">> ELSE <<>>

(* FT_Get_Char_Index(face, cp) # 0 *)
FTHasGlyph(c, cp) ==
    CASE c = "latin" -> cp \in {65, 48, 32}
      [] c = "cjk"   -> cp \in {20013, 32}
      [] c = "sym"   -> cp \in {65}
      [] OTHER       -> FALSE

(* FT_Set_Pixel_Sizes: the cjk face is a bitmap face with a single 16px strike *)
FTSetPixelSizesError(c, size) ==
    c = "cjk" /\ size # 16

(* FT_Load_Glyph error *)
FTLoadGlyphError(c, size, cp) ==
    FALSE

(* face->glyph->metrics.horiAdvance >> 6 *)
FTHoriAdvance(c, size, cp) ==
    CASE c = "cjk"  -> IF cp = 32 THEN 0 ELSE size
      [] OTHER      -> IF cp = 32 THEN size \div 4 ELSE size \div 2 + 1

(* face->glyph->advance.x >> 6 *)
FTAdvanceX(c, size, cp) ==
    CASE c = "cjk"  -> IF cp = 32 THEN size \div 2 ELSE size
      [] OTHER      -> IF cp = 32 THEN size \div 4 ELSE size \div 2 + 1

----------------------------------------------------------------------------
(* Input domains *)

FontIds ==
    0 .. MaxFontId

Names ==
    { <<>> }

(* the 16px strike of the cjk face, and a size it has no strike for *)
QuerySizes ==
    {15, 16}

Codepoints ==
    {33}

(* an exclamation mark and a capital A *)
QueryCodepoints ==
    {33, 65}

HandleSizes ==
    {16}

Widths ==
    {-1, 0, 9}

(* keys of the direct cache calls: one key and, for each of its three      *)
(* components, a key that differs in that component only                   *)
CacheKeys ==
    { <<1, 16, 65>>, <<2, 16, 65>>, <<1, 15, 65>>, <<1, 16, 33>> }

Handles ==
    0 .. MaxHandle

Thresholds ==
    {MEMORY_WARNING_THRESHOLD}

NoInput ==
    [nonnull |-> FALSE, size |-> 0, content |-> "", allocOk |-> TRUE]

NoFrame ==
    [op |-> "none"]

----------------------------------------------------------------------------
(* FontMetricsCache *)

(* a | b on 16-bit values *)
RECURSIVE BitOr16(_, _)
BitOr16(a, b) ==
    IF a = 0 THEN b
    ELSE IF b = 0 THEN a
    ELSE (IF a % 2 = 1 \/ b % 2 = 1 THEN 1 ELSE 0) + 2 * BitOr16(a \div 2, b \div 2)

(* the bits of a 32-bit value, two's complement, as two 16-bit limbs *)
Limbs32(n) ==
    << (n \div 65536) % 65536, n % 65536 >>

(* variant: the shift is done in 32 bits and loses the size *)
makeKey_NoSize(fontSize, codepoint) ==
    << 0, 0 >> \o Limbs32(codepoint)

(* variant: the size is shifted by 16 bits only *)
makeKey_Shift16(fontSize, codepoint) ==
    LET wide == << IF fontSize < 0 THEN 65535 ELSE 0,
                   IF fontSize < 0 THEN 65535 ELSE 0 >> \o Limbs32(fontSize)
        cp64 == << 0, 0 >> \o Limbs32(codepoint)
    IN  [i \in 1 .. 4 |-> BitOr16(<< wide[2], wide[3], wide[4], 0 >>[i], cp64[i])]

(* makeKey: (static_cast<uint64_t>(fontSize) << 32) | codepoint.  A 64-bit  *)
(* value is held as four 16-bit limbs, the most significant first.  The    *)
(* cast sign-extends the int, the shift moves every limb two places up and *)
(* drops the upper two, the uint32_t codepoint is zero-extended and ORed   *)
(* in limb by limb.                                                        *)
makeKey(fontSize, codepoint) ==
    LET wide    == << IF fontSize < 0 THEN 65535 ELSE 0,
                      IF fontSize < 0 THEN 65535 ELSE 0 >> \o Limbs32(fontSize)
        shifted == << wide[3], wide[4], 0, 0 >>
        cp64    == << 0, 0 >> \o Limbs32(codepoint)
    IN  [i \in 1 .. 4 |-> BitOr16(shifted[i], cp64[i])]

(* true when FontMetricsCache::getCharWidth takes the m_hits++ branch *)
CacheIsHit(caches, fontId, fontSize, codepoint) ==
    /\ fontId \in DOMAIN caches
    /\ makeKey(fontSize, codepoint) \in DOMAIN caches[fontId]

(* value returned by FontMetricsCache::getCharWidth *)
CacheLookup(caches, fontId, fontSize, codepoint) ==
    IF fontId \notin DOMAIN caches THEN NOT_CACHED
    ELSE IF makeKey(fontSize, codepoint) \in DOMAIN caches[fontId]
         THEN caches[fontId][makeKey(fontSize, codepoint)]
         ELSE NOT_CACHED

(* variant: a lookup always counts as a hit, and a miss as a miss too *)
HitsAfterGet_Always(hits, isHit) ==
    hits + 1

(* m_hits after FontMetricsCache::getCharWidth *)
HitsAfterGet(hits, isHit) ==
    IF isHit THEN hits + 1 ELSE hits

(* m_misses after FontMetricsCache::getCharWidth *)
MissesAfterGet(misses, isHit) ==
    IF isHit THEN misses ELSE misses + 1

(* variant: setCharWidth stores nothing *)
CacheStore_Dropped(caches, fontId, fontSize, codepoint, width) ==
    caches

(* m_fontCaches after setCharWidth *)
CacheStore(caches, fontId, fontSize, codepoint, width) ==
    MapPut(caches, fontId,
           MapPut(IF fontId \in DOMAIN caches THEN caches[fontId] ELSE EmptyMap,
                  makeKey(fontSize, codepoint), width))

(* variant: clearFont that leaves the typeface's inner map in place *)
CacheClearFont_Keep(caches, fontId) ==
    caches

(* variant: clearFont erases the first typeface of the map, not the one found *)
CacheClearFont_First(caches, fontId) ==
    IF fontId \in DOMAIN caches
    THEN MapErase(caches, {SetMin(DOMAIN caches)})
    ELSE caches

(* m_fontCaches after clearFont *)
CacheClearFont(caches, fontId) ==
    MapErase(caches, {fontId})

(* m_fontCaches after clearAll *)
CacheClearAll(caches) ==
    EmptyMap

(* entries reported by getStats *)
RECURSIVE CountEntries(_, _)
CountEntries(caches, ids) ==
    IF ids = {} THEN 0
    ELSE LET id == CHOOSE x \in ids : TRUE
         IN  Cardinality(DOMAIN caches[id]) + CountEntries(caches, ids \ {id})

(* history: the width last set for each (id, size, codepoint) that was    *)
(* set and not cleared since                                               *)
WrittenAfterSet(w, fontId, fontSize, codepoint, width) ==
    MapPut(w, <<fontId, fontSize, codepoint>>, width)

WrittenAfterClear(w, fontId) ==
    MapErase(w, {k \in DOMAIN w : k[1] = fontId})

(* ParseResult(): the members the serialized result shows, the timings of  *)
(* metrics left out                                                        *)
ParseResult ==
    [success |-> FALSE, data |-> "", errors |-> << >>, warnings |-> << >>,
     metricsEnabled |-> FALSE, characterCount |-> 0, memoryUsed |-> 0]

(* ParseMetrics(): the counts; the times are left out *)
ParseMetrics ==
    [characterCount |-> 0, inputSize |-> 0]

----------------------------------------------------------------------------
(* MultiFontManager *)

Init ==
    /\ m_library \in BOOLEAN
    /\ m_fonts = EmptyMap
    /\ m_nextFontId = 1
    /\ m_defaultFontId = 0
    /\ m_fontInstances = EmptyMap
    /\ m_nextFontHandle = 1
    /\ m_memoryWarningIssued = FALSE
    /\ m_fontCaches = EmptyMap
    /\ m_hits = 0
    /\ m_misses = 0
    /\ liveFaces = {}
    /\ liveBuffers = {}
    /\ pc = "idle"
    /\ frame = NoFrame
    /\ last = [op |-> "none", arg |-> 0, size |-> 0, cp |-> 0, ret |-> 0,
               input |-> NoInput,
               pre |-> [def |-> 0, fonts |-> {}, cached |-> FALSE, handles |-> {},
                        mem |-> 0, bytes |-> 0, latch |-> FALSE],
               snap |-> << >>, warned |-> FALSE, used |-> -1]
    /\ written = EmptyMap
    /\ issued = << >>
    /\ g_lastParseResult = ParseResult
    /\ g_lastMetrics = ParseMetrics
    /\ g_isDebug = FALSE

RECURSIVE SumMemoryUsage(_, _)
SumMemoryUsage(fonts, ids) ==
    IF ids = {} THEN 0
    ELSE LET id == CHOOSE x \in ids : TRUE
         IN  fonts[id].memoryUsage + SumMemoryUsage(fonts, ids \ {id})

getTotalMemoryUsage(fonts) ==
    SumMemoryUsage(fonts, DOMAIN fonts)

(* what the registry looked like when a call on typeface arg began; mem is *)
(* what getTotalMemoryUsage() returned then, bytes the length of the data  *)
(* vector of typeface arg                                                  *)
Pre(arg) ==
    [ def     |-> m_defaultFontId,
      fonts   |-> DOMAIN m_fonts,
      cached  |-> arg \in DOMAIN m_fontCaches,
      handles |-> {h \in DOMAIN m_fontInstances : m_fontInstances[h].fontId = arg},
      mem     |-> getTotalMemoryUsage(m_fonts),
      bytes   |-> IF arg \in DOMAIN m_fonts THEN ContentBytes(m_fonts[arg].data) ELSE 0,
      latch   |-> m_memoryWarningIssued ]

Call(op, arg, size, cp, ret, pre) ==
    [op |-> op, arg |-> arg, size |-> size, cp |-> cp, ret |-> ret,
     input |-> NoInput, pre |-> pre, snap |-> << >>, warned |-> FALSE, used |-> -1]

(* what a failed load must leave as it was *)
LoadSnapshot ==
    << m_fonts, m_defaultFontId, m_nextFontId, m_fontInstances, m_nextFontHandle,
       m_fontCaches, m_memoryWarningIssued, liveFaces, liveBuffers >>

(* a loadFont call: its arguments and the registry it was made on *)
LoadCall(payload, allocOk, ret, pre, snap) ==
    [op |-> "loadFont", arg |-> 0, size |-> 0, cp |-> 0, ret |-> ret,
     input |-> [nonnull |-> payload.nonnull, size |-> payload.size,
                content |-> payload.content, allocOk |-> allocOk],
     pre |-> pre, snap |-> snap, warned |-> FALSE, used |-> -1]

(* a width query: its arguments and the cache entries it was made on *)
QueryCall(fontId, fontSize, codepoint, ret, pre, snap) ==
    [op |-> "getCharWidth", arg |-> fontId, size |-> fontSize, cp |-> codepoint,
     ret |-> ret, input |-> NoInput, pre |-> pre, snap |-> snap, warned |-> FALSE,
     used |-> -1]

(* what a call naming a typeface that is not loaded must leave as it was *)
RegistrySnapshot ==
    << m_fonts, m_defaultFontId, m_nextFontId, m_fontInstances, m_nextFontHandle,
       m_fontCaches, m_hits, m_misses, m_memoryWarningIssued, liveFaces, liveBuffers >>

(* a call of unloadFont or setDefaultFont: its argument and, when the      *)
(* argument is not a loaded typeface, the registry it was made on          *)
IdCall(op, fontId, pre) ==
    [op |-> op, arg |-> fontId, size |-> 0, cp |-> 0, ret |-> 0,
     input |-> NoInput, pre |-> pre,
     snap |-> IF fontId \in DOMAIN m_fonts THEN << >> ELSE RegistrySnapshot,
     warned |-> FALSE, used |-> -1]

(* variant: the check never sets the latch *)
LatchAfterCheck_Never(fonts, latch, threshold) ==
    latch

(* m_memoryWarningIssued after checkMemoryThreshold(threshold) *)
LatchAfterCheck(fonts, latch, threshold) ==
    IF getTotalMemoryUsage(fonts) > threshold THEN TRUE ELSE latch

(* checkMemoryThreshold(threshold) reaches the warning it logs *)
WarnsOnCheck(fonts, latch, threshold) ==
    getTotalMemoryUsage(fonts) > threshold /\ ~latch

(* variant: FT_Done_Face is not called *)
ReleaseFace_Leak(faces, face) ==
    faces

(* live faces after "if (face) FT_Done_Face(face)" *)
ReleaseFace(faces, face) ==
    IF face # 0 THEN faces \ {face} ELSE faces

(* live buffers after data.clear(); data.shrink_to_fit(), or after the     *)
(* vector is destroyed with its entry                                      *)
ReleaseBuffer(buffers, fontId) ==
    buffers \ {fontId}

(* loadFont's parameter validation *)
LoadRejects(library, payload) ==
    \/ ~payload.nonnull
    \/ payload.size = 0
    \/ ~library

(* variant: memoryUsage stays at the 0 it is initialised with *)
NewEntry_NoUsage(fontId, payload, name, face) ==
    [ id          |-> fontId,
      name        |-> IF FTFamilyName(payload.content) # <<>> /\ name = <<>>
                      THEN FTFamilyName(payload.content) ELSE name,
      face        |-> face,
      data        |-> payload.content,
      memoryUsage |-> 0,
      currentSize |-> 0 ]

(* the entry loadFont stores for a payload that parsed into face *)
NewEntry(fontId, payload, name, face) ==
    [ id          |-> fontId,
      name        |-> IF FTFamilyName(payload.content) # <<>> /\ name = <<>>
                      THEN FTFamilyName(payload.content) ELSE name,
      face        |-> face,
      data        |-> payload.content,
      memoryUsage |-> payload.size,
      currentSize |-> 0 ]

(* m_nextFontId after a successful load *)
NextIdAfterLoad(nextId) ==
    nextId + 1

(* variant: every successful load takes over the default *)
DefaultAfterLoad_Always(def, fontId) ==
    fontId

(* m_defaultFontId after a successful load that stored fontId *)
DefaultAfterLoad(def, fontId) ==
    IF def = 0 THEN fontId ELSE def

(* variant: the face parse result is not checked *)
LoadFails_NoParseCheck(payload, allocOk) ==
    \/ LoadRejects(m_library, payload)
    \/ ~allocOk

(* the whole of loadFont fails *)
LoadFails(payload, allocOk) ==
    \/ LoadRejects(m_library, payload)
    \/ ~allocOk
    \/ ~FTParses(payload.content)

loadFont(payload, name, allocOk) ==
    /\ pc = "idle"
    /\ m_nextFontId <= MaxFontId
    /\ IF LoadFails(payload, allocOk)
       THEN /\ UNCHANGED << registryVars, cacheVars, heapVars, issued,
                            parserVars >>
            /\ last' = LoadCall(payload, allocOk, 0, Pre(0), LoadSnapshot)
       ELSE /\ m_nextFontId' = NextIdAfterLoad(m_nextFontId)
            /\ m_fonts' = MapPut(m_fonts, m_nextFontId,
                                 NewEntry(m_nextFontId, payload, name, m_nextFontId))
            /\ m_defaultFontId' = DefaultAfterLoad(m_defaultFontId, m_nextFontId)
            /\ m_memoryWarningIssued' =
                   LatchAfterCheck(m_fonts', m_memoryWarningIssued,
                                   MEMORY_WARNING_THRESHOLD)
            /\ liveFaces' = liveFaces \cup {m_nextFontId}
            /\ liveBuffers' = liveBuffers \cup {m_nextFontId}
            /\ issued' = Append(issued, m_nextFontId)
            /\ UNCHANGED parserVars
            /\ UNCHANGED << m_library, m_fontInstances, m_nextFontHandle, cacheVars >>
            /\ last' = [LoadCall(payload, allocOk, m_nextFontId, Pre(0), LoadSnapshot)
                           EXCEPT !.warned = WarnsOnCheck(m_fonts', m_memoryWarningIssued,
                                                          MEMORY_WARNING_THRESHOLD)]
    /\ UNCHANGED << ctlVars, written >>

(* variant: the default is not looked at on unload *)
DefaultAfterUnload_Stale(fonts, def, fontId) ==
    def

(* variant: every unload reassigns the default to the first remaining typeface *)
DefaultAfterUnload_First(fonts, def, fontId) ==
    IF DOMAIN fonts # {} THEN SetMin(DOMAIN fonts) ELSE 0

(* m_defaultFontId after unloadFont erased fontId, fonts being the map left *)
DefaultAfterUnload(fonts, def, fontId) ==
    IF def = fontId
    THEN IF DOMAIN fonts # {} THEN SetMin(DOMAIN fonts) ELSE 0
    ELSE def

(* variant: the handle sweep is missing *)
InstancesAfterUnload_Keep(instances, fontId) ==
    instances

(* variant: the sweep drops every handle *)
InstancesAfterUnload_All(instances, fontId) ==
    EmptyMap

(* m_fontInstances after unloadFont dropped the handles of fontId *)
InstancesAfterUnload(instances, fontId) ==
    MapErase(instances, {h \in DOMAIN instances : instances[h].fontId = fontId})

unloadFont(fontId) ==
    /\ pc = "idle"
    /\ IF fontId \notin DOMAIN m_fonts
       THEN UNCHANGED << registryVars, cacheVars, heapVars, written >>
       ELSE /\ m_fontCaches' = CacheClearFont(m_fontCaches, fontId)
            /\ written' = WrittenAfterClear(written, fontId)
            /\ liveFaces' = ReleaseFace(liveFaces, m_fonts[fontId].face)
            /\ liveBuffers' = ReleaseBuffer(liveBuffers, fontId)
            /\ m_fonts' = MapErase(m_fonts, {fontId})
            /\ m_defaultFontId' = DefaultAfterUnload(m_fonts', m_defaultFontId, fontId)
            /\ m_fontInstances' = InstancesAfterUnload(m_fontInstances, fontId)
            /\ m_memoryWarningIssued' = FALSE
            /\ UNCHANGED << m_library, m_nextFontId, m_nextFontHandle, m_hits, m_misses >>
    /\ last' = IdCall("unloadFont", fontId, Pre(fontId))
    /\ UNCHANGED << ctlVars, issued, parserVars >>

(* variant: the id is not looked up *)
DefaultAfterSet_Unchecked(fonts, def, fontId) ==
    fontId

(* m_defaultFontId after setDefaultFont(fontId) *)
DefaultAfterSet(fonts, def, fontId) ==
    IF fontId \in DOMAIN fonts THEN fontId ELSE def

setDefaultFont(fontId) ==
    /\ pc = "idle"
    /\ m_defaultFontId' = DefaultAfterSet(m_fonts, m_defaultFontId, fontId)
    /\ last' = IdCall("setDefaultFont", fontId, Pre(fontId))
    /\ UNCHANGED << m_library, m_fonts, m_nextFontId, m_fontInstances, m_nextFontHandle,
                    m_memoryWarningIssued, cacheVars, heapVars, ctlVars, written, issued,
                    parserVars >>

getDefaultFontId ==
    m_defaultFontId

isFontLoaded(fontId) ==
    fontId \in DOMAIN m_fonts

(* variant: clearAllFonts restarts the id counter *)
NextIdAfterClear_Reset(nextId) ==
    1

RECURSIVE ReleaseFaces(_, _, _)
ReleaseFaces(faces, fonts, ids) ==
    IF ids = {} THEN faces
    ELSE LET id == SetMin(ids)
         IN  ReleaseFaces(ReleaseFace(faces, fonts[id].face), fonts, ids \ {id})

(* m_nextFontId after clearAllFonts: the counter is not reset *)
NextIdAfterClear(nextId) ==
    nextId

clearAllFonts ==
    /\ pc = "idle"
    /\ m_fontCaches' = CacheClearAll(m_fontCaches)
    /\ written' = EmptyMap
    /\ liveFaces' = ReleaseFaces(liveFaces, m_fonts, DOMAIN m_fonts)
    /\ liveBuffers' = liveBuffers \ DOMAIN m_fonts
    /\ m_fonts' = EmptyMap
    /\ m_fontInstances' = EmptyMap
    /\ m_defaultFontId' = 0
    /\ m_memoryWarningIssued' = FALSE
    /\ m_nextFontId' = NextIdAfterClear(m_nextFontId)
    /\ last' = Call("clearAllFonts", 0, 0, 0, 0, Pre(0))
    /\ UNCHANGED << m_library, m_nextFontHandle, m_hits, m_misses, ctlVars, issued,
                    parserVars >>

checkMemoryThreshold(threshold) ==
    /\ pc = "idle"
    /\ m_memoryWarningIssued' =
           LatchAfterCheck(m_fonts, m_memoryWarningIssued, threshold)
    /\ last' = [Call("checkMemoryThreshold", 0, 0, 0,
                         IF getTotalMemoryUsage(m_fonts) > threshold THEN 1 ELSE 0, Pre(0))
                   EXCEPT !.warned = WarnsOnCheck(m_fonts, m_memoryWarningIssued, threshold)]
    /\ UNCHANGED << m_library, m_fonts, m_nextFontId, m_defaultFontId, m_fontInstances,
                    m_nextFontHandle, cacheVars, heapVars, ctlVars, written, issued,
                    parserVars >>

----------------------------------------------------------------------------
(* Font handle management *)

(* the handles a createFontHandle call was made on *)
HandleSnapshot ==
    << m_fontInstances, m_nextFontHandle >>

(* variant: an unloaded typeface is never replaced by the default *)
HandleFontId_NoDefault(fonts, def, fontId) ==
    IF fontId \in DOMAIN fonts THEN fontId ELSE 0

(* the typeface createFontHandle binds the handle to, 0 when it fails *)
HandleFontId(fonts, def, fontId) ==
    IF fontId \in DOMAIN fonts THEN fontId
    ELSE IF def # 0 /\ def \in DOMAIN fonts THEN def ELSE 0

createFontHandle(fontId, fontSize, bold, italic) ==
    LET usedId == HandleFontId(m_fonts, m_defaultFontId, fontId)
    IN  /\ pc = "idle"
        /\ m_nextFontHandle <= MaxHandle
        /\ IF usedId = 0
           THEN /\ UNCHANGED << m_fontInstances, m_nextFontHandle >>
                /\ last' = [Call("createFontHandle", fontId, fontSize, 0, 0, Pre(fontId))
                               EXCEPT !.snap = HandleSnapshot]
           ELSE /\ m_nextFontHandle' = m_nextFontHandle + 1
                /\ m_fontInstances' =
                       MapPut(m_fontInstances, m_nextFontHandle,
                              [fontId |-> usedId, fontSize |-> fontSize,
                               bold |-> bold, italic |-> italic])
                /\ last' = [Call("createFontHandle", fontId, fontSize, 0,
                                 m_nextFontHandle, Pre(fontId))
                               EXCEPT !.snap = HandleSnapshot]
        /\ UNCHANGED << m_library, m_fonts, m_nextFontId, m_defaultFontId,
                        m_memoryWarningIssued, cacheVars, heapVars, ctlVars,
                        written, issued, parserVars >>

deleteFontHandle(handle) ==
    /\ pc = "idle"
    /\ m_fontInstances' = MapErase(m_fontInstances, {handle})
    /\ last' = Call("deleteFontHandle", handle, 0, 0, 0, Pre(0))
    /\ UNCHANGED << m_library, m_fonts, m_nextFontId, m_defaultFontId, m_nextFontHandle,
                    m_memoryWarningIssued, cacheVars, heapVars, ctlVars, written, issued,
                    parserVars >>

(* what getFontInstance yields for an unknown handle (nullptr) *)
NullInstance ==
    [fontId |-> 0, fontSize |-> 0, bold |-> FALSE, italic |-> FALSE]

getFontInstance(handle) ==
    IF handle \in DOMAIN m_fontInstances THEN m_fontInstances[handle] ELSE NullInstance

----
(* Width queries *)

(* variant: no codepoint is classified as a CJK ideograph *)
isCJK_Never(cp) ==
    FALSE

isCJK(cp) ==
    \/ (cp >= 19968 /\ cp <= 40959)
    \/ (cp >= 13312 /\ cp <= 19903)
    \/ (cp >= 131072 /\ cp <= 173791)

isCJKPunctuation(cp) ==
    \/ (cp >= 12288 /\ cp <= 12351)
    \/ (cp >= 65280 /\ cp <= 65519)

isLatinPunctuation(cp) ==
    \/ (cp >= 32 /\ cp <= 47)
    \/ (cp >= 58 /\ cp <= 64)
    \/ (cp >= 91 /\ cp <= 96)
    \/ (cp >= 123 /\ cp <= 126)

(* the first codepoint of chain the face has a glyph for, 0 when none *)
FirstGlyph(content, chain) ==
    IF \E i \in 1 .. Len(chain) : FTHasGlyph(content, chain[i])
    THEN chain[SetMin({i \in 1 .. Len(chain) : FTHasGlyph(content, chain[i])})]
    ELSE 0

(* setFontSize: the value it returns *)
setFontSizeOk(entry, fontSize) ==
    \/ entry.currentSize = fontSize
    \/ ~FTSetPixelSizesError(entry.data, fontSize)

(* *outUsedFontId when getCharWidthWithFallback returns without writing it *)
NotReported ==
    -1

(* What getCharWidthWithFallback does after a cache lookup that gave no     *)
(* width >= 0: ret is the value returned, store says whether setCharWidth   *)
(* is called with ret, sized says whether currentSize becomes fontSize,     *)
(* used is what *outUsedFontId is set to, glyph the codepoint whose glyph   *)
(* is loaded (0 when none is).                                              *)
MeasureChar(fonts, fontId, codepoint, fontSize) ==
    IF fontId \notin DOMAIN fonts \/ fonts[fontId].face = 0
    THEN [ret |-> HalfOf(fontSize), store |-> FALSE, sized |-> FALSE,
          used |-> NotReported, glyph |-> 0]
    ELSE IF ~setFontSizeOk(fonts[fontId], fontSize)
    THEN [ret |-> HalfOf(fontSize), store |-> FALSE, sized |-> FALSE,
          used |-> NotReported, glyph |-> 0]
    ELSE
      LET content == fonts[fontId].data
          found   == FTHasGlyph(content, codepoint)
          punct   == ~found /\ ~isCJK(codepoint)
                     /\ (isCJKPunctuation(codepoint) \/ isLatinPunctuation(codepoint))
          glyph   == IF found THEN codepoint
                     ELSE IF isCJK(codepoint)
                          THEN FirstGlyph(content, <<20013, 48, 32>>)
                          ELSE FirstGlyph(content, <<48, 32>>)
          hori    == FTHoriAdvance(content, fontSize, glyph)
          final   == IF hori = 0 THEN FTAdvanceX(content, fontSize, glyph) ELSE hori
      IN  IF punct
          THEN [ret |-> HalfOf(fontSize), store |-> TRUE, sized |-> TRUE,
                used |-> fontId, glyph |-> 0]
          ELSE IF glyph = 0
          THEN [ret |-> HalfOf(fontSize), store |-> FALSE, sized |-> TRUE,
                used |-> fontId, glyph |-> 0]
          ELSE IF FTLoadGlyphError(content, fontSize, glyph)
          THEN [ret |-> HalfOf(fontSize), store |-> FALSE, sized |-> TRUE,
                used |-> fontId, glyph |-> glyph]
          ELSE [ret |-> final, store |-> TRUE, sized |-> TRUE,
                used |-> fontId, glyph |-> glyph]

(* variant: the width is stored under the codepoint that was measured *)
StoreCodepoint_Measured(codepoint, glyph) ==
    IF glyph # 0 THEN glyph ELSE codepoint

(* the codepoint of the key setCharWidth is called with *)
StoreCodepoint(codepoint, glyph) ==
    codepoint

(* what getCharWidthWithFallback returns and what it sets *outUsedFontId to *)
FallbackResult(fontId, codepoint, fontSize) ==
    LET cached == CacheLookup(m_fontCaches, fontId, fontSize, codepoint)
        m      == MeasureChar(m_fonts, fontId, codepoint, fontSize)
    IN  IF cached >= 0
        THEN [ret |-> cached, used |-> fontId]
        ELSE [ret |-> m.ret, used |-> m.used]

(* what getCharWidthWithFallback does to the cache and to the typeface *)
FallbackStep(fontId, codepoint, fontSize) ==
    LET cached == CacheLookup(m_fontCaches, fontId, fontSize, codepoint)
        m      == MeasureChar(m_fonts, fontId, codepoint, fontSize)
        key    == StoreCodepoint(codepoint, m.glyph)
    IN  /\ pc = "idle"
        /\ m_hits + m_misses < MaxQueries
        /\ m_hits' = HitsAfterGet(m_hits, CacheIsHit(m_fontCaches, fontId, fontSize, codepoint))
        /\ m_misses' = MissesAfterGet(m_misses, CacheIsHit(m_fontCaches, fontId, fontSize, codepoint))
        /\ IF cached >= 0
           THEN UNCHANGED << m_fonts, m_fontCaches, written >>
           ELSE /\ m_fonts' =
                       IF m.sized
                       THEN [m_fonts EXCEPT ![fontId].currentSize = fontSize]
                       ELSE m_fonts
                /\ m_fontCaches' =
                       IF m.store
                       THEN CacheStore(m_fontCaches, fontId, fontSize, key, m.ret)
                       ELSE m_fontCaches
                /\ written' =
                       IF m.store
                       THEN WrittenAfterSet(written, fontId, fontSize, key, m.ret)
                       ELSE written
        /\ UNCHANGED << m_library, m_nextFontId, m_defaultFontId, m_fontInstances,
                        m_nextFontHandle, m_memoryWarningIssued, heapVars, ctlVars,
                        issued, parserVars >>

(* getCharWidthWithFallback(fontId, codepoint, fontSize, outUsedFontId);    *)
(* outUsed says that outUsedFontId is not null                              *)
getCharWidthWithFallback(fontId, codepoint, fontSize, outUsed) ==
    /\ FallbackStep(fontId, codepoint, fontSize)
    /\ last' = [QueryCall(fontId, fontSize, codepoint,
                          FallbackResult(fontId, codepoint, fontSize).ret,
                          Pre(fontId), m_fontCaches)
                   EXCEPT !.used = IF outUsed
                                   THEN FallbackResult(fontId, codepoint, fontSize).used
                                   ELSE NotReported]

(* getCharWidth(fontId, codepoint, fontSize) =                              *)
(* getCharWidthWithFallback(fontId, codepoint, fontSize, nullptr)           *)
getCharWidth(fontId, codepoint, fontSize) ==
    getCharWidthWithFallback(fontId, codepoint, fontSize, FALSE)

----------------------------------------------------------------------------
Next ==
    \/ \E p \in Payloads, n \in Names, ok \in BOOLEAN : loadFont(p, n, ok)
    \/ \E id \in FontIds : unloadFont(id)
    \/ \E id \in FontIds : setDefaultFont(id)
    \/ clearAllFonts
    \/ \E t \in Thresholds : checkMemoryThreshold(t)
    \/ \E id \in FontIds, sz \in HandleSizes : createFontHandle(id, sz, FALSE, FALSE)
    \/ \E h \in Handles : deleteFontHandle(h)
    \/ \E cp \in Codepoints, sz \in HandleSizes : getCharWidth(1, cp, sz)

Spec ==
    Init /\ [][Next]_vars

(* Width queries on the first typeface loaded: codepoints of each class    *)
(* of the fallback, faces that have all, some or none of the substitutes   *)
WidthContents ==
    {"latin", "cjk", "sym"}

(* U+4E00, U+3001, an exclamation mark, B and A *)
WidthCodepoints ==
    {19968, 12289, 33, 66, 65}

WidthNext ==
    \/ \E p \in PayloadsOf(WidthContents), n \in Names : loadFont(p, n, TRUE)
    \/ \E cp \in WidthCodepoints, sz \in QuerySizes :
           getCharWidthWithFallback(1, cp, sz, TRUE)

WidthSpec ==
    Init /\ [][WidthNext]_vars

(* the typeface life cycle with width queries at several sizes *)
QueryNext ==
    \/ \E p \in PayloadsOf(Contents), n \in Names, ok \in BOOLEAN : loadFont(p, n, ok)
    \/ \E id \in FontIds : unloadFont(id)
    \/ clearAllFonts
    \/ \E id \in FontIds, cp \in QueryCodepoints, sz \in QuerySizes : getCharWidth(id, cp, sz)

QuerySpec ==
    Init /\ [][QueryNext]_vars

----------------------------------------------------------------------------
(* Font family resolution.  A std::string is a sequence of one-character   *)
(* strings.                                                                *)

(* std::isspace in the "C" locale (the vertical tab is left out) *)
isspace(c) ==
    c \in {" ", "\t", "\n", "\f", "\r"}

UpperCase ==
    << "A", "B", "C", "D", "E", "F", "G", "H", "I", "J", "K", "L", "M",
       "N", "O", "P", "Q", "R", "S", "T", "U", "V", "W", "X", "Y", "Z" >>

LowerCase ==
    << "a", "b", "c", "d", "e", "f", "g", "h", "i", "j", "k", "l", "m",
       "n", "o", "p", "q", "r", "s", "t", "u", "v", "w", "x", "y", "z" >>

LowerOfUpper ==
    [u \in {UpperCase[i] : i \in 1 .. 26} |->
        LowerCase[CHOOSE i \in 1 .. 26 : UpperCase[i] = u]]

(* std::tolower in the "C" locale *)
tolower(c) ==
    IF c \in DOMAIN LowerOfUpper THEN LowerOfUpper[c] ELSE c

(* normalizeFontName: skip leading and trailing whitespace, lower the rest *)
normalizeFontName(name) ==
    LET n     == Len(name)
        start == IF \E i \in 1 .. n : ~isspace(name[i])
                 THEN SetMin({i \in 1 .. n : ~isspace(name[i])})
                 ELSE n + 1
        end   == IF start <= n
                 THEN CHOOSE i \in start .. n :
                          /\ ~isspace(name[i])
                          /\ \A j \in (i + 1) .. n : isspace(name[j])
                 ELSE start - 1
    IN  [i \in 1 .. (end - start + 1) |-> tolower(name[start + i - 1])]

(* variant: a comma ends a name inside quotes too *)
SplitsAt_Quoted(inQuotes, c) ==
    c = ","

(* parseFontFamily: the branch that ends a font name *)
SplitsAt(inQuotes, c) ==
    ~inQuotes /\ c = ","

(* parseFontFamily: result after a name ended with current collected *)
PushName(result, current) ==
    IF normalizeFontName(current) # << >>
    THEN Append(result, normalizeFontName(current))
    ELSE result

(* parseFontFamily: the loop from character i on *)
RECURSIVE ParseFrom(_, _, _, _, _, _)
ParseFrom(fontFamily, i, result, current, inQuotes, quoteChar) ==
    IF i > Len(fontFamily)
    THEN PushName(result, current)
    ELSE LET c == fontFamily[i]
         IN  IF ~inQuotes /\ c \in {"\"", "'"}
             THEN ParseFrom(fontFamily, i + 1, result, current, TRUE, c)
             ELSE IF inQuotes /\ c = quoteChar
             THEN ParseFrom(fontFamily, i + 1, result, current, FALSE, "")
             ELSE IF SplitsAt(inQuotes, c)
             THEN ParseFrom(fontFamily, i + 1, PushName(result, current), << >>,
                            inQuotes, quoteChar)
             ELSE ParseFrom(fontFamily, i + 1, result, Append(current, c),
                            inQuotes, quoteChar)

parseFontFamily(fontFamily) ==
    ParseFrom(fontFamily, 1, << >>, << >>, FALSE, "")

(* findFontByName: m_fonts is walked in key order *)
findFontByName(fonts, fontName) ==
    LET found == {id \in DOMAIN fonts :
                     normalizeFontName(fonts[id].name) = normalizeFontName(fontName)}
    IN  IF found # {} THEN SetMin(found) ELSE 0

(* the first name of fontNames that findFontByName finds, 0 when none *)
FirstFound(fonts, fontNames) ==
    LET hits == {i \in 1 .. Len(fontNames) : findFontByName(fonts, fontNames[i]) # 0}
    IN  IF hits # {} THEN findFontByName(fonts, fontNames[SetMin(hits)]) ELSE 0

resolveFontFamilyId(fonts, def, fontFamily) ==
    LET fontId == FirstFound(fonts, parseFontFamily(fontFamily))
    IN  IF fontId # 0 THEN fontId ELSE def

(* Family chains a caller writes: each member is written as pad, an        *)
(* optional quote, its text and the closing quote; canon is the member's   *)
(* trimmed lower-case name.  Members are joined with commas.               *)
ChainMember(pad, quote, text, canon) ==
    [pad |-> pad, quote |-> quote, text |-> text, canon |-> canon]

RenderMember(m) ==
    m.pad \o (IF m.quote = "" THEN << >> ELSE << m.quote >>) \o m.text
          \o (IF m.quote = "" THEN << >> ELSE << m.quote >>)

RECURSIVE RenderChain(_)
RenderChain(chain) ==
    IF chain = << >> THEN << >>
    ELSE IF Len(chain) = 1 THEN RenderMember(chain[1])
    ELSE RenderMember(chain[1]) \o << "," >> \o RenderChain(Tail(chain))

QuotedMember ==
    ChainMember(<< >>, "\"", << "Q", ",", " ", "N" >>, "q, n")

ArMember ==
    ChainMember(<< " " >>, "", << "A", "r" >>, "ar")

GenericMember ==
    ChainMember(<< " " >>, "", << "s" >>, "s")

Chains ==
    { << QuotedMember, ArMember, GenericMember >>,
      << ChainMember(<< >>, "'", << "N" >>, "n"), ChainMember(<< >>, "", << "l", "T", " " >>, "lt") >>,
      << ChainMember(<< " " >>, "", << "a", "R", " " >>, "ar") >>,
      << GenericMember >>,
      << >> }

(* names given to loadFont: none (the face's family name is taken), and    *)
(* three names, one of them with a trailing blank                          *)
FamilyNames ==
    { << >>, << "A", "r" >>, << "n", " " >>, << "Q", ",", " ", "N" >> }

(* resolveFontFamily is const: only the call is recorded *)
resolveFontFamily(chain) ==
    /\ pc = "idle"
    /\ last' = [Call("resolveFontFamily", 0, 0, 0,
                     resolveFontFamilyId(m_fonts, m_defaultFontId, RenderChain(chain)),
                     Pre(0))
                   EXCEPT !.input = [chain |-> chain]]
    /\ UNCHANGED << registryVars, cacheVars, heapVars, ctlVars, written, issued,
                    parserVars >>

FamilyNext ==
    \/ \E p \in PayloadsOf({"latin"}), n \in FamilyNames : loadFont(p, n, TRUE)
    \/ \E id \in FontIds : unloadFont(id)
    \/ \E id \in FontIds : setDefaultFont(id)
    \/ \E chain \in Chains : resolveFontFamily(chain)

FamilySpec ==
    Init /\ [][FamilyNext]_vars

(* variant: the first chain member that is loaded is taken, whether its    *)
(* face has the glyph or not                                               *)
FamilyTarget_FirstLoaded(fonts, def, fontNames, codepoint) ==
    LET loaded == {i \in 1 .. Len(fontNames) : findFontByName(fonts, fontNames[i]) # 0}
    IN  IF loaded # {}
        THEN findFontByName(fonts, fontNames[SetMin(loaded)])
        ELSE def

(* getCharWidthWithFontFamily: the typeface getCharWidthWithFallback is    *)
(* called on, 0 when the function ends in its last return                  *)
FamilyTarget(fonts, def, fontNames, codepoint) ==
    LET direct == {i \in 1 .. Len(fontNames) :
                      LET fontId == findFontByName(fonts, fontNames[i])
                      IN  /\ fontId # 0
                          /\ fonts[fontId].face # 0
                          /\ FTHasGlyph(fonts[fontId].data, codepoint)}
    IN  IF direct # {}
        THEN findFontByName(fonts, fontNames[SetMin(direct)])
        ELSE IF def # 0
        THEN def
        ELSE IF fontNames # << >>
        THEN findFontByName(fonts, fontNames[1])
        ELSE 0

getCharWidthWithFontFamily(chain, codepoint, fontSize) ==
    \E target \in { FamilyTarget(m_fonts, m_defaultFontId,
                                  parseFontFamily(RenderChain(chain)), codepoint) } :
        /\ pc = "idle"
        /\ IF target = 0
           THEN /\ pc = "idle"
                /\ last' = [QueryCall(0, fontSize, codepoint, HalfOf(fontSize),
                                      Pre(0), m_fontCaches)
                               EXCEPT !.op = "getCharWidthWithFontFamily",
                                      !.input = [chain |-> chain]]
                /\ UNCHANGED << registryVars, cacheVars, heapVars, ctlVars, written,
                                issued, parserVars >>
           ELSE /\ FallbackStep(target, codepoint, fontSize)
                /\ last' = [QueryCall(target, fontSize, codepoint,
                                      FallbackResult(target, codepoint, fontSize).ret,
                                      Pre(target), m_fontCaches)
                               EXCEPT !.op = "getCharWidthWithFontFamily",
                                      !.input = [chain |-> chain],
                                      !.used = FallbackResult(target, codepoint,
                                                              fontSize).used]

NMember ==
    ChainMember(<< >>, "'", << "N" >>, "n")

(* chains of the width queries: both typefaces in either order, and a     *)
(* name no typeface has                                                    *)
WidthChains ==
    { << NMember, ArMember >>, << ArMember, NMember >>, << GenericMember >> }

(* the typefaces of the family width queries: a latin face named Ar and a  *)
(* cjk face named n                                                        *)
FamilyFaces ==
    { [payload |-> [nonnull |-> TRUE, size |-> ContentBytes("latin"), content |-> "latin"],
       name |-> << "A", "r" >>],
      [payload |-> [nonnull |-> TRUE, size |-> ContentBytes("cjk"), content |-> "cjk"],
       name |-> << "n", " " >>] }

(* A, U+4E2D and B: in the latin face only, in the cjk face only, in none *)
FamilyCodepoints ==
    {65, 20013, 66}

FamilyWidthNext ==
    \/ \E f \in FamilyFaces : loadFont(f.payload, f.name, TRUE)
    \/ \E chain \in WidthChains, cp \in FamilyCodepoints, sz \in QuerySizes :
           getCharWidthWithFontFamily(chain, cp, sz)

FamilyWidthSpec ==
    Init /\ [][FamilyWidthNext]_vars

----------------------------------------------------------------------------
(* Text width.  A text is the sequence of its bytes before the terminating *)
(* NUL, each an integer 1 .. 255.                                          *)

(* p[i - 1] for the 1-based index i: past the last byte the NUL is read *)
ByteAt(text, i) ==
    IF i <= Len(text) THEN text[i] ELSE 0

(* decodeUtf8: the value of bytes after the tests of the lead byte, 0 for  *)
(* the else branch.  (b & 0x80) == 0, (b & 0xE0) == 0xC0,                  *)
(* (b & 0xF0) == 0xE0 and (b & 0xF8) == 0xF0 by division.                  *)
LeadLength(b) ==
    IF b \div 128 = 0 THEN 1
    ELSE IF b \div 32 = 6 THEN 2
    ELSE IF b \div 16 = 14 THEN 3
    ELSE IF b \div 8 = 30 THEN 4
    ELSE 0

(* decodeUtf8: codepoint after the tests of the lead byte: *p, *p & 0x1F,  *)
(* *p & 0x0F, *p & 0x07                                                     *)
LeadBits(b) ==
    CASE LeadLength(b) = 1 -> b
      [] LeadLength(b) = 2 -> b % 32
      [] LeadLength(b) = 3 -> b % 16
      [] LeadLength(b) = 4 -> b % 8
      [] OTHER             -> 0

(* (b & 0xC0) == 0x80 *)
IsContinuation(b) ==
    b \div 64 = 2

(* decodeUtf8: the loop over the continuation bytes from p[k] on; the      *)
(* result is the codepoint returned and the index text is left at.         *)
(* (codepoint << 6) | (p[k] & 0x3F) stays below 2^21: at most three bits   *)
(* of the lead byte and three times six bits, so the uint32_t never wraps. *)
RECURSIVE ReadContinuation(_, _, _, _, _)
ReadContinuation(text, i, k, bytes, codepoint) ==
    IF k >= bytes
    THEN [codepoint |-> codepoint, next |-> i + bytes]
    ELSE IF ~IsContinuation(ByteAt(text, i + k))
    THEN [codepoint |-> 65533, next |-> i + 1]
    ELSE ReadContinuation(text, i, k + 1, bytes,
                          codepoint * 64 + (ByteAt(text, i + k) % 64))

(* variant: the continuation bytes are not looked at, the whole length of  *)
(* the lead byte is stepped over                                           *)
decodeUtf8_Unchecked(text, i) ==
    IF ByteAt(text, i) = 0
    THEN [codepoint |-> 0, next |-> i]
    ELSE IF LeadLength(text[i]) = 0
    THEN [codepoint |-> 65533, next |-> i + 1]
    ELSE [codepoint |-> LeadBits(text[i]), next |-> i + LeadLength(text[i])]

(* decodeUtf8(text) with text pointing at the byte of index i *)
decodeUtf8(text, i) ==
    IF ByteAt(text, i) = 0
    THEN [codepoint |-> 0, next |-> i]
    ELSE IF LeadLength(text[i]) = 0
    THEN [codepoint |-> 65533, next |-> i + 1]
    ELSE ReadContinuation(text, i, 1, LeadLength(text[i]), LeadBits(text[i]))

(* the members a width query reads and writes, and the total of the loop *)
WidthState ==
    [fonts |-> m_fonts, caches |-> m_fontCaches, hits |-> m_hits,
     misses |-> m_misses, written |-> written, total |-> 0]

(* getCharWidth(fontId, codepoint, fontSize) made on the members st, its   *)
(* return value added to the total                                         *)
AddCharWidth(st, fontId, codepoint, fontSize) ==
    LET cached == CacheLookup(st.caches, fontId, fontSize, codepoint)
        isHit  == CacheIsHit(st.caches, fontId, fontSize, codepoint)
        m      == MeasureChar(st.fonts, fontId, codepoint, fontSize)
        key    == StoreCodepoint(codepoint, m.glyph)
    IN  IF cached >= 0
        THEN [st EXCEPT !.hits   = HitsAfterGet(st.hits, isHit),
                        !.misses = MissesAfterGet(st.misses, isHit),
                        !.total  = st.total + cached]
        ELSE [fonts   |-> IF m.sized
                          THEN [st.fonts EXCEPT ![fontId].currentSize = fontSize]
                          ELSE st.fonts,
              caches  |-> IF m.store
                          THEN CacheStore(st.caches, fontId, fontSize, key, m.ret)
                          ELSE st.caches,
              hits    |-> HitsAfterGet(st.hits, isHit),
              misses  |-> MissesAfterGet(st.misses, isHit),
              written |-> IF m.store
                          THEN WrittenAfterSet(st.written, fontId, fontSize, key, m.ret)
                          ELSE st.written,
              total   |-> st.total + m.ret]

(* getTextWidth: the while loop with p at the byte of index i *)
RECURSIVE TextLoop(_, _, _, _, _)
TextLoop(st, fontId, text, i, fontSize) ==
    IF ByteAt(text, i) = 0
    THEN st
    ELSE LET d == decodeUtf8(text, i)
         IN  TextLoop(IF d.codepoint # 0
                      THEN AddCharWidth(st, fontId, d.codepoint, fontSize)
                      ELSE st,
                      fontId, text, d.next, fontSize)

(* getTextWidth(fontId, text, fontSize); a null text returns 0 and does    *)
(* nothing, as the empty text does                                         *)
getTextWidth(fontId, text, fontSize) ==
    \E st \in { TextLoop(WidthState, fontId, text, 1, fontSize) } :
        /\ pc = "idle"
        /\ m_hits + m_misses < MaxQueries
        /\ m_fonts' = st.fonts
        /\ m_fontCaches' = st.caches
        /\ m_hits' = st.hits
        /\ m_misses' = st.misses
        /\ written' = st.written
        /\ last' = [Call("getTextWidth", fontId, fontSize, 0, st.total, Pre(fontId))
                       EXCEPT !.input = [text |-> text],
                              !.snap = << m_fonts, m_fontCaches >>]
        /\ UNCHANGED << m_library, m_nextFontId, m_defaultFontId, m_fontInstances,
                        m_nextFontHandle, m_memoryWarningIssued, heapVars, ctlVars,
                        issued, parserVars >>

(* Texts: A; A0; U+4E2D; U+00A1; U+1F600; a continuation byte and 0xFF in  *)
(* the place of a lead byte; a three-byte lead followed by A; a three-byte *)
(* sequence cut short; the two-byte form 0xC0 0x80, alone and after A      *)
Texts ==
    { << 65 >>, << 65, 48 >>, << 228, 184, 173 >>, << 194, 161 >>,
      << 240, 159, 152, 128 >>, << 128 >>, << 255 >>, << 228, 65 >>,
      << 228, 184 >>, << 192, 128 >>, << 65, 192, 128 >> }

TextNext ==
    \/ \E p \in PayloadsOf({"latin", "cjk"}), n \in Names : loadFont(p, n, TRUE)
    \/ \E text \in Texts, sz \in QuerySizes : getTextWidth(1, text, sz)

TextSpec ==
    Init /\ [][TextNext]_vars

----------------------------------------------------------------------------
(* Direct calls of the FontMetricsCache interface *)

(* history: the cache call made before a lookup, and the typeface it named *)
PreviousCall ==
    << last.op, last.arg >>

cacheGetCharWidth(fontId, fontSize, codepoint) ==
    /\ pc = "idle"
    /\ m_hits + m_misses < MaxQueries
    /\ m_hits' = HitsAfterGet(m_hits, CacheIsHit(m_fontCaches, fontId, fontSize, codepoint))
    /\ m_misses' = MissesAfterGet(m_misses, CacheIsHit(m_fontCaches, fontId, fontSize, codepoint))
    /\ last' = [Call("cache.getCharWidth", fontId, fontSize, codepoint,
                     CacheLookup(m_fontCaches, fontId, fontSize, codepoint), Pre(fontId))
                   EXCEPT !.snap = PreviousCall]
    /\ UNCHANGED << registryVars, m_fontCaches, heapVars, ctlVars, written, issued,
                    parserVars >>

cacheSetCharWidth(fontId, fontSize, codepoint, width) ==
    /\ pc = "idle"
    /\ m_fontCaches' = CacheStore(m_fontCaches, fontId, fontSize, codepoint, width)
    /\ written' = WrittenAfterSet(written, fontId, fontSize, codepoint, width)
    /\ last' = Call("cache.setCharWidth", fontId, fontSize, codepoint, width, Pre(fontId))
    /\ UNCHANGED << registryVars, m_hits, m_misses, heapVars, ctlVars, issued,
                    parserVars >>

cacheClearFont(fontId) ==
    /\ pc = "idle"
    /\ m_fontCaches' = CacheClearFont(m_fontCaches, fontId)
    /\ written' = WrittenAfterClear(written, fontId)
    /\ last' = Call("cache.clearFont", fontId, 0, 0, 0, Pre(fontId))
    /\ UNCHANGED << registryVars, m_hits, m_misses, heapVars, ctlVars, issued,
                    parserVars >>

cacheClearAll ==
    /\ pc = "idle"
    /\ m_fontCaches' = CacheClearAll(m_fontCaches)
    /\ written' = EmptyMap
    /\ last' = Call("cache.clearAll", 0, 0, 0, 0, Pre(0))
    /\ UNCHANGED << registryVars, m_hits, m_misses, heapVars, ctlVars, issued,
                    parserVars >>

(* variant: resetStats forgets m_hits *)
HitsAfterReset_Keep(hits) ==
    hits

(* m_hits after resetStats *)
HitsAfterReset(hits) ==
    0

(* the counters a resetStats call was made on *)
StatsSnapshot ==
    << m_hits, m_misses >>

resetStats ==
    /\ pc = "idle"
    /\ m_hits' = HitsAfterReset(m_hits)
    /\ m_misses' = 0
    /\ last' = [Call("cache.resetStats", 0, 0, 0, 0, Pre(0)) EXCEPT !.snap = StatsSnapshot]
    /\ UNCHANGED << registryVars, m_fontCaches, heapVars, ctlVars, written, issued,
                    parserVars >>

CacheNext ==
    \/ \E k \in CacheKeys : cacheGetCharWidth(k[1], k[2], k[3])
    \/ \E k \in CacheKeys, w \in Widths : cacheSetCharWidth(k[1], k[2], k[3], w)
    \/ \E id \in {1, 2} : cacheClearFont(id)
    \/ cacheClearAll
    \/ resetStats

CacheSpec ==
    Init /\ [][CacheNext]_vars

(* the cache interface together with the registry calls that clear the     *)
(* cache: loads, width queries on the first typeface, unloads              *)
StatsNext ==
    \/ \E p \in PayloadsOf({"latin"}), n \in Names : loadFont(p, n, TRUE)
    \/ \E cp \in QueryCodepoints, sz \in HandleSizes : getCharWidth(1, cp, sz)
    \/ \E id \in {1, 2} : unloadFont(id)
    \/ clearAllFonts
    \/ \E id \in {1, 2} : cacheClearFont(id)
    \/ cacheClearAll
    \/ \E k \in {<<2, 16, 65>>} : cacheSetCharWidth(k[1], k[2], k[3], 9)
    \/ resetStats

StatsSpec ==
    Init /\ [][StatsNext]_vars

----------------------------------------------------------------------------
(* loadFont, unloadFont and clearAllFonts statement by statement.  The     *)
(* registry is single-threaded: while pc is not "idle" only the running    *)
(* operation moves.                                                        *)

loadFont_validate(payload, name, allocOk) ==
    /\ pc = "idle"
    /\ m_nextFontId <= MaxFontId
    /\ IF LoadRejects(m_library, payload)
       THEN /\ last' = LoadCall(payload, allocOk, 0, Pre(0), LoadSnapshot)
            /\ UNCHANGED ctlVars
       ELSE /\ pc' = "load_copy"
            /\ frame' = [op |-> "loadFont", payload |-> payload, name |-> name,
                         allocOk |-> allocOk, face |-> 0, data |-> "", pre |-> Pre(0),
                         snap |-> LoadSnapshot]
            /\ UNCHANGED last
    /\ UNCHANGED << registryVars, cacheVars, heapVars, written, issued,
                    parserVars >>

(* entry.data.assign(data, data + size), which may throw *)
loadFont_copy ==
    /\ pc = "load_copy"
    /\ IF frame.allocOk
       THEN /\ liveBuffers' = liveBuffers \cup {m_nextFontId}
            /\ frame' = [frame EXCEPT !.data = frame.payload.content]
            /\ pc' = "load_parse"
            /\ UNCHANGED last
       ELSE /\ last' = LoadCall(frame.payload, frame.allocOk, 0, frame.pre, frame.snap)
            /\ pc' = "idle"
            /\ frame' = NoFrame
            /\ UNCHANGED liveBuffers
    /\ UNCHANGED << registryVars, cacheVars, liveFaces, written, issued,
                    parserVars >>

(* FT_New_Memory_Face *)
loadFont_parse ==
    /\ pc = "load_parse"
    /\ IF FTParses(frame.data)
       THEN /\ liveFaces' = liveFaces \cup {m_nextFontId}
            /\ frame' = [frame EXCEPT !.face = m_nextFontId]
            /\ pc' = "load_store"
       ELSE /\ pc' = "load_release"
            /\ UNCHANGED << liveFaces, frame >>
    /\ UNCHANGED << registryVars, cacheVars, liveBuffers, last, written, issued,
                    parserVars >>

(* the clean-up of a failed parse *)
loadFont_release ==
    /\ pc = "load_release"
    /\ liveBuffers' = ReleaseBuffer(liveBuffers, m_nextFontId)
    /\ last' = LoadCall(frame.payload, frame.allocOk, 0, frame.pre, frame.snap)
    /\ pc' = "idle"
    /\ frame' = NoFrame
    /\ UNCHANGED << registryVars, cacheVars, liveFaces, written, issued,
                    parserVars >>

(* store the entry, set the default, check the memory threshold *)
loadFont_store ==
    /\ pc = "load_store"
    /\ m_nextFontId' = NextIdAfterLoad(m_nextFontId)
    /\ m_fonts' = MapPut(m_fonts, m_nextFontId,
                         NewEntry(m_nextFontId, frame.payload, frame.name, frame.face))
    /\ m_defaultFontId' = DefaultAfterLoad(m_defaultFontId, m_nextFontId)
    /\ m_memoryWarningIssued' =
           LatchAfterCheck(m_fonts', m_memoryWarningIssued, MEMORY_WARNING_THRESHOLD)
    /\ issued' = Append(issued, m_nextFontId)
    /\ UNCHANGED parserVars
    /\ last' = [LoadCall(frame.payload, frame.allocOk, m_nextFontId, frame.pre, frame.snap)
                   EXCEPT !.warned = WarnsOnCheck(m_fonts', m_memoryWarningIssued,
                                                  MEMORY_WARNING_THRESHOLD)]
    /\ pc' = "idle"
    /\ frame' = NoFrame
    /\ UNCHANGED << m_library, m_fontInstances, m_nextFontHandle, cacheVars, heapVars,
                    written >>

(* find the entry, clear its cache *)
unloadFont_find(fontId) ==
    /\ pc = "idle"
    /\ IF fontId \notin DOMAIN m_fonts
       THEN /\ last' = IdCall("unloadFont", fontId, Pre(fontId))
            /\ UNCHANGED << cacheVars, written, ctlVars >>
       ELSE /\ m_fontCaches' = CacheClearFont(m_fontCaches, fontId)
            /\ written' = WrittenAfterClear(written, fontId)
            /\ pc' = "unload_face"
            /\ frame' = [op |-> "unloadFont", fontId |-> fontId, pre |-> Pre(fontId)]
            /\ UNCHANGED << m_hits, m_misses, last >>
    /\ UNCHANGED << registryVars, heapVars, issued, parserVars >>

(* FT_Done_Face, face = nullptr *)
unloadFont_face ==
    /\ pc = "unload_face"
    /\ liveFaces' = ReleaseFace(liveFaces, m_fonts[frame.fontId].face)
    /\ m_fonts' = [m_fonts EXCEPT ![frame.fontId].face = 0]
    /\ pc' = "unload_data"
    /\ UNCHANGED << m_library, m_nextFontId, m_defaultFontId, m_fontInstances,
                    m_nextFontHandle, m_memoryWarningIssued, cacheVars, liveBuffers,
                    frame, last, written, issued, parserVars >>

(* data.clear(), data.shrink_to_fit() *)
unloadFont_data ==
    /\ pc = "unload_data"
    /\ liveBuffers' = ReleaseBuffer(liveBuffers, frame.fontId)
    /\ m_fonts' = [m_fonts EXCEPT ![frame.fontId].data = ""]
    /\ pc' = "unload_erase"
    /\ UNCHANGED << m_library, m_nextFontId, m_defaultFontId, m_fontInstances,
                    m_nextFontHandle, m_memoryWarningIssued, cacheVars, liveFaces,
                    frame, last, written, issued, parserVars >>

(* erase the entry, update the default, sweep the handles, reset the latch *)
unloadFont_erase ==
    /\ pc = "unload_erase"
    /\ m_fonts' = MapErase(m_fonts, {frame.fontId})
    /\ liveBuffers' = ReleaseBuffer(liveBuffers, frame.fontId)
    /\ m_defaultFontId' = DefaultAfterUnload(m_fonts', m_defaultFontId, frame.fontId)
    /\ m_fontInstances' = InstancesAfterUnload(m_fontInstances, frame.fontId)
    /\ m_memoryWarningIssued' = FALSE
    /\ last' = Call("unloadFont", frame.fontId, 0, 0, 0, frame.pre)
    /\ pc' = "idle"
    /\ frame' = NoFrame
    /\ UNCHANGED << m_library, m_nextFontId, m_nextFontHandle, cacheVars, liveFaces,
                    written, issued, parserVars >>

(* clear the cache, enter the loop over m_fonts *)
clearAllFonts_cache ==
    /\ pc = "idle"
    /\ m_fontCaches' = CacheClearAll(m_fontCaches)
    /\ written' = EmptyMap
    /\ pc' = IF DOMAIN m_fonts = {} THEN "clear_maps" ELSE "clear_face"
    /\ frame' = [op |-> "clearAllFonts", todo |-> DOMAIN m_fonts, pre |-> Pre(0)]
    /\ UNCHANGED << registryVars, m_hits, m_misses, heapVars, last, issued,
                    parserVars >>

(* loop body, first half: FT_Done_Face of the next entry in key order *)
clearAllFonts_face ==
    /\ pc = "clear_face"
    /\ liveFaces' = ReleaseFace(liveFaces, m_fonts[SetMin(frame.todo)].face)
    /\ m_fonts' = [m_fonts EXCEPT ![SetMin(frame.todo)].face = 0]
    /\ pc' = "clear_data"
    /\ UNCHANGED << m_library, m_nextFontId, m_defaultFontId, m_fontInstances,
                    m_nextFontHandle, m_memoryWarningIssued, cacheVars, liveBuffers,
                    frame, last, written, issued, parserVars >>

(* loop body, second half: release the data of that entry *)
clearAllFonts_data ==
    /\ pc = "clear_data"
    /\ liveBuffers' = ReleaseBuffer(liveBuffers, SetMin(frame.todo))
    /\ m_fonts' = [m_fonts EXCEPT ![SetMin(frame.todo)].data = ""]
    /\ frame' = [frame EXCEPT !.todo = frame.todo \ {SetMin(frame.todo)}]
    /\ pc' = IF frame'.todo = {} THEN "clear_maps" ELSE "clear_face"
    /\ UNCHANGED << m_library, m_nextFontId, m_defaultFontId, m_fontInstances,
                    m_nextFontHandle, m_memoryWarningIssued, cacheVars, liveFaces,
                    last, written, issued, parserVars >>

(* clear both maps, reset the default and the latch *)
clearAllFonts_maps ==
    /\ pc = "clear_maps"
    /\ liveBuffers' = liveBuffers \ DOMAIN m_fonts
    /\ m_fonts' = EmptyMap
    /\ m_fontInstances' = EmptyMap
    /\ m_defaultFontId' = 0
    /\ m_memoryWarningIssued' = FALSE
    /\ m_nextFontId' = NextIdAfterClear(m_nextFontId)
    /\ last' = Call("clearAllFonts", 0, 0, 0, 0, frame.pre)
    /\ pc' = "idle"
    /\ frame' = NoFrame
    /\ UNCHANGED << m_library, m_nextFontHandle, cacheVars, liveFaces, written, issued,
                    parserVars >>

StepNext ==
    \/ \E p \in Payloads, n \in Names, ok \in BOOLEAN : loadFont_validate(p, n, ok)
    \/ loadFont_copy
    \/ loadFont_parse
    \/ loadFont_release
    \/ loadFont_store
    \/ \E id \in FontIds : unloadFont_find(id)
    \/ unloadFont_face
    \/ unloadFont_data
    \/ unloadFont_erase
    \/ clearAllFonts_cache
    \/ clearAllFonts_face
    \/ clearAllFonts_data
    \/ clearAllFonts_maps
    \/ \E id \in FontIds, sz \in HandleSizes : createFontHandle(id, sz, FALSE, FALSE)

StepSpec ==
    Init /\ [][StepNext]_vars

----------------------------------------------------------------------------
(* JsonSerializer.  The JSON text is held as the value it denotes: an      *)
(* array as a sequence, an object as a record with the keys written.       *)

(* the longest record list of the enumerated inputs *)
MaxRecords ==
    3

(* style of a character: the fields isSameStyle and the claims look at *)
StyleOf(color, thickness) ==
    [fontFamily |-> "Lt", fontSize |-> 16, fontWeight |-> 400, fontStyle |-> "normal",
     color |-> color, backgroundColor |-> "#00000000",
     textDecoration |-> [underline |-> FALSE, overline |-> FALSE, lineThrough |-> FALSE,
                         color |-> "#000000ff", style |-> "solid",
                         thickness |-> thickness]]

(* a CharLayout *)
Char(character, x, y, width, height, baseline, style) ==
    [character |-> character, x |-> x, y |-> y, width |-> width, height |-> height,
     baseline |-> baseline, style |-> style]

(* Records: a at the origin; b and c at the same place after a, c without  *)
(* width and with a thicker decoration line; d one unit below a; e wholly  *)
(* left of the origin; f after b in another color                          *)
Records ==
    { Char("a", 0, 0, 5, 10, 8, StyleOf("#000000ff", 1)),
      Char("b", 5, 0, 5, 12, 9, StyleOf("#000000ff", 1)),
      Char("c", 5, 0, 0, 10, 8, StyleOf("#000000ff", 2)),
      Char("d", 0, 1, 5, 10, 9, StyleOf("#000000ff", 1)),
      Char("e", -8, 0, 3, 10, 8, StyleOf("#000000ff", 1)),
      Char("f", 10, 0, 5, 10, 8, StyleOf("#ff0000ff", 1)) }

(* five characters on one line, in reading order and not: styles A,A,A,B,B *)
FiveOnALine ==
    << Char("4", 15, 0, 5, 10, 8, StyleOf("#ff0000ff", 1)),
       Char("1", 0, 0, 5, 10, 8, StyleOf("#000000ff", 1)),
       Char("3", 10, 0, 5, 10, 8, StyleOf("#000000ff", 1)),
       Char("5", 20, 0, 5, 10, 8, StyleOf("#ff0000ff", 1)),
       Char("2", 5, 0, 5, 10, 8, StyleOf("#000000ff", 1)) >>

(* the record lists handed to the serializer *)
RecordLists ==
    UNION { [1 .. n -> Records] : n \in 0 .. MaxRecords } \cup { FiveOnALine }

(* The order std::sort leaves elements of equal x in is unspecified: the   *)
(* sort is a function of the sequence it is given, and ties says which of  *)
(* two elements of equal x that function puts first, by their places in    *)
(* the list (the lower number first).                                      *)
TieOrders(n) ==
    { t \in [1 .. n -> 1 .. n] : \A i, j \in 1 .. n : i # j => t[i] # t[j] }

OutputModes ==
    {"Flat", "ByRow", "Simple", "Full"}

(* a mode string: the pointer may be null *)
ModeStr(s) ==
    [nonnull |-> TRUE, str |-> s]

NullModeStr ==
    [nonnull |-> FALSE, str |-> ""]

ModeStrings ==
    { NullModeStr } \cup
    { ModeStr(s) : s \in {"full", "simple", "byRow", "byrow", "flat", "", "Full",
                          "FULL", "ByRow", "BYROW", "by_row", "simple ", "rows"} }

(* variant: the mode string is compared without regard to case *)
parseMode_AnyCase(modeStr) ==
    IF ~modeStr.nonnull THEN "Flat"
    ELSE IF modeStr.str \in {"full", "Full", "FULL"} THEN "Full"
    ELSE IF modeStr.str = "simple" THEN "Simple"
    ELSE IF modeStr.str \in {"byRow", "byrow", "ByRow", "BYROW"} THEN "ByRow"
    ELSE "Flat"

parseMode(modeStr) ==
    IF ~modeStr.nonnull THEN "Flat"
    ELSE IF modeStr.str = "full" THEN "Full"
    ELSE IF modeStr.str = "simple" THEN "Simple"
    ELSE IF modeStr.str = "byRow" \/ modeStr.str = "byrow" THEN "ByRow"
    ELSE "Flat"

(* the keys of a std::map<int, ...> in iteration order, which std::sort    *)
(* leaves as they are                                                      *)
RECURSIVE Ascending(_)
Ascending(S) ==
    IF S = {} THEN << >>
    ELSE << SetMin(S) >> \o Ascending(S \ {SetMin(S)})

(* variant: rows are keyed by y / 2 *)
RowKey_Halved(y) ==
    y \div 2

(* the key of rowMap and lineMap *)
RowKey(y) ==
    y

(* the places of the list pushed under key y, in list order *)
RowPlaces(layouts, y) ==
    {i \in 1 .. Len(layouts) : RowKey(layouts[i].y) = y}

(* variant: the comparator is a->x > b->x *)
SortsBefore_Descending(layouts, ties, i, j) ==
    \/ layouts[i].x > layouts[j].x
    \/ (layouts[i].x = layouts[j].x /\ ties[i] < ties[j])

(* std::sort with a->x < b->x puts place i before place j *)
SortsBefore(layouts, ties, i, j) ==
    \/ layouts[i].x < layouts[j].x
    \/ (layouts[i].x = layouts[j].x /\ ties[i] < ties[j])

(* std::sort of the places by x *)
RECURSIVE SortByX(_, _, _)
SortByX(layouts, places, ties) ==
    IF places = {} THEN << >>
    ELSE LET first == CHOOSE i \in places :
                          \A j \in places \ {i} : SortsBefore(layouts, ties, i, j)
         IN  << layouts[first] >> \o SortByX(layouts, places \ {first}, ties)

serializeFlat(layouts) ==
    layouts

serializeByRow(layouts, ties) ==
    LET yCoords == Ascending({RowKey(layouts[i].y) : i \in 1 .. Len(layouts)})
    IN  [rowIndex \in 1 .. Len(yCoords) |->
            [rowIndex |-> rowIndex - 1,
             y        |-> yCoords[rowIndex],
             children |-> SortByX(layouts, RowPlaces(layouts, yCoords[rowIndex]), ties)]]

(* groupIntoLines: the loop over line.characters from index k on *)
RECURSIVE LineExtent(_, _, _)
LineExtent(characters, k, acc) ==
    IF k > Len(characters) THEN acc
    ELSE LET ch == characters[k]
         IN  LineExtent(characters, k + 1,
                 [maxHeight   |-> IF ch.height > acc.maxHeight
                                  THEN ch.height ELSE acc.maxHeight,
                  maxBaseline |-> IF ch.baseline > acc.maxBaseline
                                  THEN ch.baseline ELSE acc.maxBaseline,
                  maxX        |-> IF ch.x + ch.width > acc.maxX
                                  THEN ch.x + ch.width ELSE acc.maxX])

isSameStyle(a, b) ==
    /\ a.style.fontFamily = b.style.fontFamily
    /\ a.style.fontSize = b.style.fontSize
    /\ a.style.fontWeight = b.style.fontWeight
    /\ a.style.fontStyle = b.style.fontStyle
    /\ a.style.color = b.style.color
    /\ a.style.backgroundColor = b.style.backgroundColor
    /\ a.style.textDecoration.underline = b.style.textDecoration.underline
    /\ a.style.textDecoration.overline = b.style.textDecoration.overline
    /\ a.style.textDecoration.lineThrough = b.style.textDecoration.lineThrough
    /\ a.style.textDecoration.color = b.style.textDecoration.color
    /\ a.style.textDecoration.style = b.style.textDecoration.style

(* a Run opened by character ch *)
NewRun(runIndex, ch) ==
    [runIndex |-> runIndex, x |-> ch.x, style |-> ch.style, characters |-> << ch >>]

(* groupIntoRuns: the loop from index i on, runs the finished runs *)
RECURSIVE RunsFrom(_, _, _, _)
RunsFrom(characters, i, runs, currentRun) ==
    IF i > Len(characters) THEN Append(runs, currentRun)
    ELSE IF isSameStyle(currentRun.characters[Len(currentRun.characters)], characters[i])
    THEN RunsFrom(characters, i + 1, runs,
                  [currentRun EXCEPT !.characters = Append(@, characters[i])])
    ELSE RunsFrom(characters, i + 1, Append(runs, currentRun),
                  NewRun(Len(runs) + 1, characters[i]))

groupIntoRuns(characters) ==
    IF characters = << >> THEN << >>
    ELSE RunsFrom(characters, 2, << >>, NewRun(0, characters[1]))

(* a Line as groupIntoLines builds it; runs is filled by serializeFull *)
groupIntoLines(layouts, ties) ==
    LET yCoords == Ascending({RowKey(layouts[i].y) : i \in 1 .. Len(layouts)})
    IN  [i \in 1 .. Len(yCoords) |->
            LET chars  == SortByX(layouts, RowPlaces(layouts, yCoords[i]), ties)
                extent == LineExtent(chars, 1,
                                     [maxHeight |-> 0, maxBaseline |-> 0, maxX |-> 0])
            IN  [lineIndex  |-> i - 1,
                 y          |-> yCoords[i],
                 baseline   |-> IF chars = << >> THEN 0 ELSE extent.maxBaseline,
                 height     |-> IF chars = << >> THEN 0 ELSE extent.maxHeight,
                 width      |-> IF chars = << >> THEN 0 ELSE extent.maxX - chars[1].x,
                 textAlign  |-> "left",
                 characters |-> chars]]

(* serializeLineSimple: the keys written for a line *)
serializeLineSimple(line) ==
    line

(* serializeLineFull: the keys written for a line *)
serializeLineFull(line) ==
    [lineIndex |-> line.lineIndex, y |-> line.y, baseline |-> line.baseline,
     height |-> line.height, width |-> line.width, textAlign |-> line.textAlign,
     runs |-> groupIntoRuns(line.characters)]

serializeSimple(layouts, viewport, ties) ==
    LET lines == groupIntoLines(layouts, ties)
    IN  [version  |-> "2.0",
         viewport |-> viewport,
         lines    |-> [i \in 1 .. Len(lines) |-> serializeLineSimple(lines[i])]]

(* variant: a page without lines has no block *)
serializeFull_NoBlock(layouts, viewport, ties) ==
    LET lines == groupIntoLines(layouts, ties)
        block == [blockIndex |-> 0, type |-> "div", x |-> 0, y |-> 0,
                  width  |-> viewport.width,
                  height |-> IF lines = << >> THEN 0
                             ELSE lines[Len(lines)].y + lines[Len(lines)].height,
                  lines  |-> [i \in 1 .. Len(lines) |-> serializeLineFull(lines[i])]]
        page  == [pageIndex |-> 0, width |-> viewport.width, height |-> viewport.height,
                  blocks |-> IF lines = << >> THEN << >> ELSE << block >>]
    IN  [version |-> "2.0", parserVersion |-> "2.0.0", viewport |-> viewport,
         pages |-> << page >>]

serializeFull(layouts, viewport, ties) ==
    LET lines == groupIntoLines(layouts, ties)
        block == [blockIndex |-> 0, type |-> "div", x |-> 0, y |-> 0,
                  width  |-> viewport.width,
                  height |-> IF lines = << >> THEN 0
                             ELSE lines[Len(lines)].y + lines[Len(lines)].height,
                  lines  |-> [i \in 1 .. Len(lines) |-> serializeLineFull(lines[i])]]
        page  == [pageIndex |-> 0, width |-> viewport.width, height |-> viewport.height,
                  blocks |-> << block >>]
    IN  [version |-> "2.0", parserVersion |-> "2.0.0", viewport |-> viewport,
         pages |-> << page >>]

(* JsonSerializer::serialize *)
Serialized(layouts, mode, viewport, ties) ==
    CASE mode = "Full"   -> serializeFull(layouts, viewport, ties)
      [] mode = "Simple" -> serializeSimple(layouts, viewport, ties)
      [] mode = "ByRow"  -> serializeByRow(layouts, ties)
      [] OTHER           -> serializeFlat(layouts)

(* the viewport parseHTML builds: the width given and the default height *)
ViewportOf(viewportWidth) ==
    [width |-> viewportWidth, height |-> 10000]

(* a call of the serializer: the list, the mode and the sort's tie order *)
SerializeCall(op, layouts, mode, ties, ret) ==
    [Call(op, 0, 0, 0, ret, Pre(0))
        EXCEPT !.input = [layouts |-> layouts, mode |-> mode, ties |-> ties]]

(* JsonSerializer::parseMode(modeStr) *)
parseModeCall(modeStr) ==
    /\ pc = "idle"
    /\ last' = SerializeCall("parseMode", << >>, modeStr, << >>, parseMode(modeStr))
    /\ UNCHANGED << registryVars, cacheVars, heapVars, ctlVars, written, issued,
                    parserVars >>

(* JsonSerializer::serialize(layouts, mode, viewport) *)
serialize(layouts, mode, viewport, ties) ==
    /\ pc = "idle"
    /\ last' = SerializeCall("serialize", layouts, mode, ties,
                             Serialized(layouts, mode, viewport, ties))
    /\ UNCHANGED << registryVars, cacheVars, heapVars, ctlVars, written, issued,
                    parserVars >>

(* The serializer keeps no state between calls (its methods are static),   *)
(* so a behaviour makes one call.                                          *)
SerializeNext ==
    \/ /\ last.op = "none"
       /\ \E modeStr \in ModeStrings : parseModeCall(modeStr)
    \/ /\ last.op = "none"
       /\ \E layouts \in RecordLists, mode \in OutputModes :
              \E ties \in TieOrders(Len(layouts)) :
                  serialize(layouts, mode, ViewportOf(800), ties)

SerializeSpec ==
    Init /\ [][SerializeNext]_vars

----------------------------------------------------------------------------
(* Claims about the registry, checked under Spec *)

(* C1: the metrics cache never holds an entry for a typeface id that is    *)
(* not loaded; after unload(id) every lookup under id is a miss; a width   *)
(* query on an id that is not loaded returns pixelSize/2 and leaves the    *)
(* cache entries as they were.                                             *)
C1_NoStaleCacheEntry ==
    /\ DOMAIN m_fontCaches \subseteq DOMAIN m_fonts
    /\ (last.op = "unloadFont" /\ last.arg \in last.pre.fonts) =>
           \A sz \in QuerySizes, cp \in QueryCodepoints :
               /\ ~CacheIsHit(m_fontCaches, last.arg, sz, cp)
               /\ CacheLookup(m_fontCaches, last.arg, sz, cp) = NOT_CACHED
    /\ (last.op = "getCharWidth" /\ last.arg \notin DOMAIN m_fonts) =>
           /\ last.ret = HalfOf(last.size)
           /\ m_fontCaches = last.snap

(* an unload of a loaded typeface that had cached widths has happened *)
C1_Witness ==
    /\ last.op = "unloadFont"
    /\ last.arg \in last.pre.fonts
    /\ last.pre.cached

(* the inputs the claim lists as making a load fail *)
LoadInputBad(in) ==
    \/ ~in.nonnull
    \/ in.size = 0
    \/ ~m_library
    \/ ~FTParses(in.content)

(* C4: a load that fails returns 0 and leaves the loaded typefaces, the    *)
(* default, the total memory, the font instance handles, the cache         *)
(* entries, the warning latch and the next id to hand out unchanged.       *)
C4_FailedLoadNoEffect ==
    (last.op = "loadFont") =>
        /\ LoadInputBad(last.input) => last.ret = 0
        /\ last.ret = 0 =>
              /\ LoadSnapshot = last.snap
              /\ getTotalMemoryUsage(m_fonts) = getTotalMemoryUsage(last.snap[1])

(* a face parse failure has happened in a registry holding a typeface, a   *)
(* cached width and a handle                                               *)
C4_Witness ==
    /\ last.op = "loadFont"
    /\ last.ret = 0
    /\ last.input.nonnull /\ last.input.size > 0 /\ last.input.allocOk
    /\ ~FTParses(last.input.content)
    /\ DOMAIN m_fonts # {}
    /\ DOMAIN m_fontCaches # {}
    /\ DOMAIN m_fontInstances # {}

(* C5: the default names exactly one loaded typeface when any is loaded,   *)
(* and is 0 when none is loaded.                                           *)
C5_DefaultWellDefined ==
    IF DOMAIN m_fonts = {}
    THEN getDefaultFontId = 0
    ELSE /\ getDefaultFontId \in DOMAIN m_fonts
         /\ Cardinality({id \in DOMAIN m_fonts : m_fonts[id].id = getDefaultFontId}) = 1

(* setDefault has moved the default between two loaded typefaces *)
C5_Witness ==
    /\ last.op = "setDefaultFont"
    /\ last.arg # last.pre.def
    /\ getDefaultFontId = last.arg
    /\ Cardinality(DOMAIN m_fonts) >= 2

(* C6: every live font instance handle references a loaded typeface, and   *)
(* after unload(id) every handle that referenced id is not found.          *)
C6_HandlesFollowTypefaces ==
    /\ \A h \in DOMAIN m_fontInstances : m_fontInstances[h].fontId \in DOMAIN m_fonts
    /\ (last.op = "unloadFont" /\ last.arg \in last.pre.fonts) =>
           \A h \in last.pre.handles : getFontInstance(h) = NullInstance

(* an unload of a typeface that handles referenced has happened *)
C6_Witness ==
    /\ last.op = "unloadFont"
    /\ last.arg \in last.pre.fonts
    /\ last.pre.handles # {}

(* C8: the ids returned by successful loads, in the order they were       *)
(* returned, are positive and strictly increasing, so none is handed out   *)
(* twice, whether its typeface is still loaded or not.                     *)
C8_IdsStrictlyIncreasing ==
    /\ \A i \in 1 .. Len(issued) : issued[i] > 0
    /\ \A i \in 1 .. Len(issued), j \in 1 .. Len(issued) : i < j => issued[i] < issued[j]
    /\ (last.op = "loadFont" /\ last.ret # 0) =>
           /\ Len(issued) > 0
           /\ last.ret = issued[Len(issued)]
           /\ last.ret \notin last.pre.fonts

(* a load into an emptied registry has returned a new id *)
C8_Witness ==
    /\ last.op = "loadFont"
    /\ last.ret > 1
    /\ last.pre.fonts = {}
    /\ DOMAIN m_fonts = {last.ret}

(* C9: a successful load makes the new typeface the default exactly when   *)
(* no default existed, which is when no typeface was loaded; otherwise the *)
(* default is unchanged.                                                   *)
C9_FirstLoadBecomesDefault ==
    (last.op = "loadFont" /\ last.ret # 0) =>
        /\ getDefaultFontId = IF last.pre.def = 0 THEN last.ret ELSE last.pre.def
        /\ (last.pre.def = 0) <=> (last.pre.fonts = {})

(* a load while a default existed has happened *)
C9_Witness ==
    /\ last.op = "loadFont"
    /\ last.ret # 0
    /\ last.pre.def # 0
    /\ getDefaultFontId = last.pre.def

(* C10: unloading the default moves the default to a remaining typeface,   *)
(* or to 0 when none remains; unloading another loaded typeface leaves it. *)
C10_UnloadReassignsDefault ==
    (last.op = "unloadFont" /\ last.arg \in last.pre.fonts) =>
        IF last.arg = last.pre.def
        THEN IF DOMAIN m_fonts = {}
             THEN getDefaultFontId = 0
             ELSE getDefaultFontId \in DOMAIN m_fonts
        ELSE getDefaultFontId = last.pre.def

(* the default was unloaded while another typeface remained *)
C10_Witness ==
    /\ last.op = "unloadFont"
    /\ last.arg = last.pre.def
    /\ last.arg \in last.pre.fonts
    /\ getDefaultFontId # 0

----------------------------------------------------------------------------
(* Claims about the metrics cache, checked under CacheSpec *)

(* C2: a get for a key returns the width last set for it and counts one    *)
(* hit when the key was set and not cleared since; otherwise it returns    *)
(* the not-cached sentinel -1 and counts one miss.                         *)
C2_SetThenGet ==
    [][ (last'.op = "cache.getCharWidth") =>
          LET k == << last'.arg, last'.size, last'.cp >>
          IN  IF k \in DOMAIN written
              THEN /\ last'.ret = written[k]
                   /\ m_hits' = m_hits + 1
                   /\ m_misses' = m_misses
              ELSE /\ last'.ret = NOT_CACHED
                   /\ m_misses' = m_misses + 1
                   /\ m_hits' = m_hits
      ]_vars

(* a get has returned a width set earlier while a key differing in one     *)
(* component only holds another width                                      *)
C2_Witness ==
    /\ last.op = "cache.getCharWidth"
    /\ last.ret = 9
    /\ m_hits = 1
    /\ \E k \in DOMAIN written :
           /\ k # << last.arg, last.size, last.cp >>
           /\ written[k] # 9

(* C3 as stated: every get and every set adds one to exactly one counter *)
C3_GetAndSetCount ==
    [][ (last'.op \in {"cache.getCharWidth", "cache.setCharWidth"}) =>
          \/ (m_hits' = m_hits + 1 /\ m_misses' = m_misses)
          \/ (m_misses' = m_misses + 1 /\ m_hits' = m_hits)
      ]_vars

(* C3, amended: every get adds one to exactly one of the two counters;     *)
(* a set leaves both counters unchanged.                                   *)
C3_OnlyGetCounts ==
    [][ /\ (last'.op = "cache.getCharWidth") =>
              \/ (m_hits' = m_hits + 1 /\ m_misses' = m_misses)
              \/ (m_misses' = m_misses + 1 /\ m_hits' = m_hits)
        /\ (last'.op = "cache.setCharWidth") =>
              (m_hits' = m_hits /\ m_misses' = m_misses)
      ]_vars

(* a set has happened after a counted lookup *)
C3_Witness ==
    /\ last.op = "cache.setCharWidth"
    /\ m_hits + m_misses > 0
    /\ DOMAIN m_fontCaches # {}

----------------------------------------------------------------------------
(* Claims about resource ownership, checked under StepSpec *)

(* the face and data fields of the entries, and of loadFont's local entry, *)
(* agree with what is live on the heap                                     *)
EntryFieldsMatchHeap ==
    /\ \A id \in DOMAIN m_fonts :
           /\ (m_fonts[id].face # 0) <=> (m_fonts[id].face \in liveFaces)
           /\ (m_fonts[id].data # "") <=> (id \in liveBuffers)
    /\ (pc \in {"load_parse", "load_release", "load_store"}) =>
           /\ (frame.face # 0) <=> (frame.face \in liveFaces)
           /\ (frame.data # "") <=> (m_nextFontId \in liveBuffers)

(* C7: at every step every live face handle has a non-empty backing        *)
(* buffer, and whenever load, unload or clearAllFonts has completed the    *)
(* live face handles, the live buffers and the registry entries are        *)
(* equally many.                                                           *)
C7_FaceBackedByBuffer ==
    /\ EntryFieldsMatchHeap
    /\ \A f \in liveFaces : f \in liveBuffers
    /\ \A id \in DOMAIN m_fonts : m_fonts[id].face # 0 => m_fonts[id].data # ""
    /\ (pc \in {"load_parse", "load_release", "load_store"} /\ frame.face # 0) =>
           frame.data # ""
    /\ (pc = "idle") =>
           /\ Cardinality(liveFaces) = Cardinality(DOMAIN m_fonts)
           /\ Cardinality(liveBuffers) = Cardinality(DOMAIN m_fonts)

(* inside unload: the face of the typeface is released, its buffer is      *)
(* not yet, and another typeface is still loaded                           *)
C7_Witness ==
    /\ pc = "unload_data"
    /\ frame.fontId \in liveBuffers
    /\ frame.fontId \notin liveFaces
    /\ liveFaces # {}

----------------------------------------------------------------------------
(* Claims about calls on the registry, checked under Spec *)

(* C11: unloadFont(id) and setDefaultFont(id) with an id that is not       *)
(* loaded leave the loaded typefaces, the default, the font instance       *)
(* handles, the cache entries and counters and the warning latch as they   *)
(* were.                                                                   *)
C11_UnknownIdNoOp ==
    (last.op \in {"unloadFont", "setDefaultFont"} /\ last.arg \notin last.pre.fonts) =>
        /\ last.snap = RegistrySnapshot
        /\ getDefaultFontId = last.pre.def

(* an unload of an id that is not loaded has happened in a registry with a *)
(* default, a handle, a cached width and the warning latch set             *)
C11_Witness ==
    /\ last.op = "unloadFont"
    /\ last.arg \notin last.pre.fonts
    /\ last.arg # 0
    /\ getDefaultFontId # 0
    /\ DOMAIN m_fontInstances # {}
    /\ DOMAIN m_fontCaches # {}
    /\ m_memoryWarningIssued

(* sum of the lengths of the data vectors of the loaded typefaces *)
RECURSIVE SumPayloadBytes(_, _)
SumPayloadBytes(fonts, ids) ==
    IF ids = {} THEN 0
    ELSE LET id == CHOOSE x \in ids : TRUE
         IN  ContentBytes(fonts[id].data) + SumPayloadBytes(fonts, ids \ {id})

(* C12: the total memory usage is the sum of the payload byte sizes of the *)
(* loaded typefaces; a successful load of N bytes adds exactly N to it,    *)
(* and an unload takes the bytes of the unloaded typeface off again.       *)
C12_MemoryIsPayloadSum ==
    /\ getTotalMemoryUsage(m_fonts) = SumPayloadBytes(m_fonts, DOMAIN m_fonts)
    /\ (last.op = "loadFont" /\ last.ret # 0) =>
           getTotalMemoryUsage(m_fonts) = last.pre.mem + last.input.size
    /\ (last.op = "unloadFont" /\ last.arg \in last.pre.fonts) =>
           getTotalMemoryUsage(m_fonts) = last.pre.mem - last.pre.bytes

(* the typeface loaded last has been unloaded while a typeface of another  *)
(* size stays loaded                                                       *)
C12_Witness ==
    /\ last.op = "unloadFont"
    /\ Len(issued) > 0
    /\ last.arg = issued[Len(issued)]
    /\ last.arg \in last.pre.fonts
    /\ last.pre.bytes > 0
    /\ getTotalMemoryUsage(m_fonts) > 0
    /\ getTotalMemoryUsage(m_fonts) # last.pre.bytes

----------------------------------------------------------------------------
(* Claims about font families, checked under FamilySpec *)

(* the trimmed lower-case name of each name a typeface of the model has *)
NameCanon(name) ==
    CASE name = << "A", "r" >>           -> "ar"
      [] name = << "n", " " >>           -> "n"
      [] name = << "Q", ",", " ", "N" >> -> "q, n"
      [] name = << "L", "t" >>           -> "lt"
      [] OTHER                           -> ""

(* the loaded typefaces whose name is the name of member i of chain *)
ChainMatches(chain, i) ==
    {id \in DOMAIN m_fonts : NameCanon(m_fonts[id].name) = chain[i].canon}

(* C14: resolveFontFamily returns a typeface named by the first chain      *)
(* member, in chain order, that names a loaded typeface after trimming and *)
(* case folding, and the default only when no member names one; a quoted   *)
(* member containing a comma is one member.                                *)
C14_ResolveFirstMatch ==
    (last.op = "resolveFontFamily") =>
        LET chain == last.input.chain
            named == {i \in 1 .. Len(chain) : ChainMatches(chain, i) # {}}
        IN  IF named # {}
            THEN last.ret \in ChainMatches(chain, SetMin(named))
            ELSE last.ret = getDefaultFontId

(* the chain "Q, N", Ar, s has resolved to the typeface named Ar, which is *)
(* not the default, while a typeface named n is loaded                     *)
C14_Witness ==
    /\ last.op = "resolveFontFamily"
    /\ last.input.chain = << QuotedMember, ArMember, GenericMember >>
    /\ last.ret # 0
    /\ last.ret # getDefaultFontId
    /\ m_fonts[last.ret].name = << "A", "r" >>
    /\ \E id \in DOMAIN m_fonts : m_fonts[id].name = << "n", " " >>
    /\ \A id \in DOMAIN m_fonts : m_fonts[id].name # << "Q", ",", " ", "N" >>

----------------------------------------------------------------------------
(* Claims about width queries, checked under WidthSpec *)

(* the class of each codepoint the queries of WidthSpec use *)
CodepointClass(cp) ==
    CASE cp = 19968          -> "ideograph"
      [] cp \in {12289, 33}  -> "punctuation"
      [] OTHER               -> "other"

(* the advance of the glyph of g: the horizontal advance, or the secondary *)
(* advance when that is reported as zero                                   *)
AdvanceOf(content, size, g) ==
    IF FTHoriAdvance(content, size, g) # 0
    THEN FTHoriAdvance(content, size, g)
    ELSE FTAdvanceX(content, size, g)

(* the width the fallback rules give for a codepoint the face lacks *)
FallbackWidth(content, size, cp) ==
    LET digitOrSpace ==
            IF FTHasGlyph(content, 48) THEN AdvanceOf(content, size, 48)
            ELSE IF FTHasGlyph(content, 32) THEN AdvanceOf(content, size, 32)
            ELSE HalfOf(size)
    IN  CASE CodepointClass(cp) = "ideograph" ->
                 IF FTHasGlyph(content, 20013)
                 THEN AdvanceOf(content, size, 20013)
                 ELSE digitOrSpace
          [] CodepointClass(cp) = "punctuation" -> HalfOf(size)
          [] OTHER -> digitOrSpace

(* a width query on a loaded typeface, at a size its face accepts, for a   *)
(* codepoint the face has no glyph for                                     *)
FallbackQuery ==
    /\ last.op = "getCharWidth"
    /\ last.arg \in DOMAIN m_fonts
    /\ ~FTSetPixelSizesError(m_fonts[last.arg].data, last.size)
    /\ ~FTHasGlyph(m_fonts[last.arg].data, last.cp)

FallbackMeasures(content, cp) ==
    CASE CodepointClass(cp) = "punctuation" -> TRUE
      [] CodepointClass(cp) = "ideograph" ->
             \E g \in {20013, 48, 32} : FTHasGlyph(content, g)
      [] OTHER -> \E g \in {48, 32} : FTHasGlyph(content, g)

(* C16: a width measured through a fallback is cached under the primary    *)
(* typeface, the pixel size and the original codepoint, no other cache     *)
(* entry is added, and the reported usedId is the primary typeface.        *)
C16_FallbackCachedUnderOriginal ==
    (FallbackQuery /\ FallbackMeasures(m_fonts[last.arg].data, last.cp)) =>
        /\ CacheIsHit(m_fontCaches, last.arg, last.size, last.cp)
        /\ CacheLookup(m_fontCaches, last.arg, last.size, last.cp) = last.ret
        /\ m_fontCaches = CacheStore(last.snap, last.arg, last.size, last.cp, last.ret)
        /\ last.used = last.arg

(* B, which the latin face lacks, has been measured with the digit on a    *)
(* cache miss: the width is cached for B and nothing is cached for the     *)
(* digit                                                                   *)
C16_Witness ==
    /\ FallbackQuery
    /\ last.cp = 66
    /\ m_fonts[last.arg].data = "latin"
    /\ last.ret = AdvanceOf("latin", last.size, 48)
    /\ ~CacheIsHit(last.snap, last.arg, last.size, last.cp)
    /\ CacheIsHit(m_fontCaches, last.arg, last.size, 66)
    /\ ~CacheIsHit(m_fontCaches, last.arg, last.size, 48)
    /\ last.used = last.arg

----------------------------------------------------------------------------
(* Claims about width queries by family, checked under FamilyWidthSpec *)

(* the loaded typeface a chain member names, 0 when it names none *)
MemberTypeface(member) ==
    LET named == {id \in DOMAIN m_fonts : NameCanon(m_fonts[id].name) = member.canon}
    IN  IF named # {} THEN SetMin(named) ELSE 0

(* the members of chain that name a loaded typeface whose face has a glyph *)
(* for cp                                                                  *)
DirectMembers(chain, cp) ==
    {i \in 1 .. Len(chain) :
        /\ MemberTypeface(chain[i]) # 0
        /\ FTHasGlyph(m_fonts[MemberTypeface(chain[i])].data, cp)}

(* the width of cp measured on a typeface: the advance of its own glyph,   *)
(* or the fallback width when the face lacks it                            *)
WidthOn(fontId, size, cp) ==
    IF FTHasGlyph(m_fonts[fontId].data, cp)
    THEN AdvanceOf(m_fonts[fontId].data, size, cp)
    ELSE FallbackWidth(m_fonts[fontId].data, size, cp)

----------------------------------------------------------------------------
(* Claims about text width, checked under TextSpec *)

(* the length of the sequence a lead byte opens: 0xxxxxxx, 110xxxxx,       *)
(* 1110xxxx, 11110xxx; 0 for a byte that is no lead byte                   *)
SequenceLength(b) ==
    CASE b \in 0 .. 127   -> 1
      [] b \in 192 .. 223 -> 2
      [] b \in 224 .. 239 -> 3
      [] b \in 240 .. 247 -> 4
      [] OTHER            -> 0

(* the codepoint a well-formed sequence of n bytes at index i encodes *)
EncodedCodepoint(text, i, n) ==
    CASE n = 1 -> text[i]
      [] n = 2 -> (text[i] - 192) * 64 + (text[i + 1] - 128)
      [] n = 3 -> (text[i] - 224) * 4096 + (text[i + 1] - 128) * 64
                  + (text[i + 2] - 128)
      [] n = 4 -> (text[i] - 240) * 262144 + (text[i + 1] - 128) * 4096
                  + (text[i + 2] - 128) * 64 + (text[i + 3] - 128)

(* the codepoints decoded from text from index i on, left to right: a byte *)
(* that is no lead byte, and a lead byte whose sequence has a byte that is *)
(* no continuation byte or ends early, give U+FFFD and take one byte       *)
RECURSIVE DecodedFrom(_, _)
DecodedFrom(text, i) ==
    IF i > Len(text) THEN << >>
    ELSE LET n    == SequenceLength(text[i])
             good == /\ n # 0
                     /\ i + n - 1 <= Len(text)
                     /\ \A k \in 1 .. n - 1 : text[i + k] \in 128 .. 191
         IN  IF good
             THEN << EncodedCodepoint(text, i, n) >> \o DecodedFrom(text, i + n)
             ELSE << 65533 >> \o DecodedFrom(text, i + 1)

(* the sum of the widths of the codepoints cps from index k on, each       *)
(* queried in turn on the members st                                       *)
RECURSIVE SumOfWidths(_, _, _, _, _)
SumOfWidths(st, fontId, cps, k, fontSize) ==
    IF k > Len(cps) THEN st.total
    ELSE SumOfWidths(AddCharWidth(st, fontId, cps[k], fontSize),
                     fontId, cps, k + 1, fontSize)

(* the members a text width call was made on *)
TextCallState ==
    [fonts |-> last.snap[1], caches |-> last.snap[2], hits |-> 0, misses |-> 0,
     written |-> EmptyMap, total |-> 0]

(* C18: textWidth(id, text, pixelSize) equals the sum of                   *)
(* widthWithFallback(id, cp, pixelSize) over the codepoints decoded from   *)
(* text from left to right, where every invalid lead byte and every        *)
(* invalid continuation byte decodes to U+FFFD and consumes exactly one    *)
(* byte.                                                                   *)
C18_TextWidthIsSum ==
    (last.op = "getTextWidth") =>
        last.ret = SumOfWidths(TextCallState, last.arg,
                               DecodedFrom(last.input.text, 1), 1, last.size)

----------------------------------------------------------------------------
(* Claims about handles, checked under Spec *)

(* C19: createFontHandle for a typeface id that is not loaded succeeds     *)
(* when a default typeface exists, returning a fresh non-zero handle whose *)
(* instance references the default typeface, and fails with 0 and no new   *)
(* handle when no default exists.                                          *)
C19_HandleForUnloaded ==
    (last.op = "createFontHandle" /\ last.arg \notin last.pre.fonts) =>
        IF last.pre.def # 0
        THEN /\ last.ret # 0
             /\ last.ret \notin DOMAIN last.snap[1]
             /\ last.ret >= last.snap[2]
             /\ DOMAIN m_fontInstances = DOMAIN last.snap[1] \cup {last.ret}
             /\ \A h \in DOMAIN last.snap[1] : m_fontInstances[h] = last.snap[1][h]
             /\ m_fontInstances[last.ret].fontId = last.pre.def
             /\ m_fontInstances[last.ret].fontId \in DOMAIN m_fonts
        ELSE /\ last.ret = 0
             /\ m_fontInstances = last.snap[1]
             /\ m_nextFontHandle = last.snap[2]

(* a handle has been asked for a typeface that was unloaded before, while  *)
(* another typeface was the default: the handle is bound to the default    *)
C19_Witness ==
    /\ last.op = "createFontHandle"
    /\ last.arg \notin DOMAIN m_fonts
    /\ last.arg # 0
    /\ last.arg < m_nextFontId
    /\ last.ret # 0
    /\ last.ret \in DOMAIN m_fontInstances
    /\ m_fontInstances[last.ret].fontId = getDefaultFontId
    /\ m_fontInstances[last.ret].fontId # last.arg

----------------------------------------------------------------------------
(* Claims about clearing the metrics cache, checked under CacheSpec *)

(* C20: after clear(id) on the metrics cache, no get for that id returns a *)
(* hit until a set for that id happens: a get that is counted as a hit     *)
(* finds a key of its typeface among those set since the typeface was last *)
(* cleared, and a get made right after clear(id) for that id is a miss.    *)
C20_NoHitAfterClear ==
    [][ (last'.op = "cache.getCharWidth") =>
          /\ (m_hits' = m_hits + 1) =>
                 \E k \in DOMAIN written : k[1] = last'.arg
          /\ (last.op = "cache.clearFont" /\ last.arg = last'.arg) =>
                 /\ m_hits' = m_hits
                 /\ m_misses' = m_misses + 1
                 /\ last'.ret = NOT_CACHED
      ]_vars

(* a get for a typeface has missed right after the clear of that typeface, *)
(* which had been set and hit before, while the other typeface still has   *)
(* its entry                                                               *)
C20_Witness ==
    /\ last.op = "cache.getCharWidth"
    /\ last.snap = << "cache.clearFont", last.arg >>
    /\ last.ret = NOT_CACHED
    /\ m_hits = 1
    /\ m_misses = 1
    /\ \E k \in DOMAIN written : k[1] # last.arg

----------------------------------------------------------------------------
(* Claims about the cache counters, checked under StatsSpec *)

(* the calls that clear cache entries *)
ClearingCalls ==
    {"cache.clearFont", "cache.clearAll", "unloadFont", "clearAllFonts"}

(* C21: clear(id) and clearAll, and so unload and clearAllFonts, leave the *)
(* hit and miss counters unchanged; resetStats sets both counters to zero  *)
(* and leaves every cached entry and the total entry count unchanged.      *)
C21_CountersAndEntriesIndependent ==
    [][ /\ (last'.op \in ClearingCalls) =>
              /\ m_hits' = m_hits
              /\ m_misses' = m_misses
        /\ (last'.op = "cache.resetStats") =>
              /\ m_hits' = 0
              /\ m_misses' = 0
              /\ m_fontCaches' = m_fontCaches
              /\ CountEntries(m_fontCaches', DOMAIN m_fontCaches')
                     = CountEntries(m_fontCaches, DOMAIN m_fontCaches)
      ]_vars

(* resetStats has been called with both counters above zero and entries   *)
(* of two typefaces in the cache                                           *)
C21_Witness ==
    /\ last.op = "cache.resetStats"
    /\ last.snap[1] > 0
    /\ last.snap[2] > 0
    /\ m_hits = 0
    /\ m_misses = 0
    /\ Cardinality(DOMAIN m_fontCaches) = 2
    /\ CountEntries(m_fontCaches, DOMAIN m_fontCaches) >= 2

----------------------------------------------------------------------------
(* Claims about the serializer, checked under SerializeSpec *)

(* a ByRow serialization and its rows *)
ByRowCall ==
    last.op = "serialize" /\ last.input.mode = "ByRow"

(* rows in strictly ascending y, numbered 0 .. N-1 in that order *)
RowsAscending(rows) ==
    \A r \in 1 .. Len(rows) :
        /\ rows[r].rowIndex = r - 1
        /\ r < Len(rows) => rows[r].y < rows[r + 1].y

(* C22 as stated: in ByRow output the rows are in strictly ascending y,    *)
(* rowIndex is 0..N-1 in that order, and within each row the characters    *)
(* are strictly ascending by x, for every input record list in any order.  *)
C22_ByRowStrictlyOrdered ==
    ByRowCall =>
        /\ RowsAscending(last.ret)
        /\ \A r \in 1 .. Len(last.ret) :
               \A k \in 1 .. Len(last.ret[r].children) - 1 :
                   last.ret[r].children[k].x < last.ret[r].children[k + 1].x

(* C22, amended: in ByRow output the rows are in strictly ascending y,     *)
(* rowIndex is 0..N-1 in that order, and within each row the characters    *)
(* are in ascending x, characters of equal x next to each other, for every *)
(* input record list in any order.                                         *)
C22_ByRowOrdered ==
    ByRowCall =>
        /\ RowsAscending(last.ret)
        /\ \A r \in 1 .. Len(last.ret) :
               \A k \in 1 .. Len(last.ret[r].children) - 1 :
                   last.ret[r].children[k].x <= last.ret[r].children[k + 1].x

(* a list given in descending y and x has come out as two rows, the first  *)
(* of them holding two characters of different x in ascending order        *)
C22_Witness ==
    /\ ByRowCall
    /\ Len(last.input.layouts) = 3
    /\ last.input.layouts[1].y > last.input.layouts[2].y
    /\ last.input.layouts[2].x > last.input.layouts[3].x
    /\ Len(last.ret) = 2
    /\ Len(last.ret[1].children) = 2
    /\ last.ret[1].children[1].x < last.ret[1].children[2].x
    /\ last.ret[1].children[1] = last.input.layouts[3]

(* the characters of the runs of a line, run after run *)
RECURSIVE RunCharacters(_, _)
RunCharacters(runs, k) ==
    IF k > Len(runs) THEN << >>
    ELSE runs[k].characters \o RunCharacters(runs, k + 1)

(* the rows or lines of an output, each as its y and its characters *)
RowsOf(out, mode) ==
    CASE mode = "ByRow" ->
             [r \in 1 .. Len(out) |-> [y |-> out[r].y, characters |-> out[r].children]]
      [] mode = "Simple" ->
             [r \in 1 .. Len(out.lines) |->
                 [y |-> out.lines[r].y, characters |-> out.lines[r].characters]]
      [] mode = "Full" ->
             LET lines == out.pages[1].blocks[1].lines
             IN  [r \in 1 .. Len(lines) |->
                     [y |-> lines[r].y,
                      characters |-> RunCharacters(lines[r].runs, 1)]]

(* how many times record v occurs in the rows *)
RECURSIVE OccurrencesInRows(_, _, _)
OccurrencesInRows(rows, r, v) ==
    IF r > Len(rows) THEN 0
    ELSE Cardinality({k \in 1 .. Len(rows[r].characters) : rows[r].characters[k] = v})
         + OccurrencesInRows(rows, r + 1, v)

(* a serialization in one of the grouping modes *)
GroupingCall ==
    last.op = "serialize" /\ last.input.mode \in {"ByRow", "Simple", "Full"}

(* C23: in ByRow, Simple and Full modes two records are placed in the same *)
(* row/line if and only if their y values are exactly equal, every input   *)
(* record appears in exactly one row/line with none dropped or duplicated, *)
(* and Simple/Full produce the same row sequence and in-row character      *)
(* order as ByRow.                                                         *)
C23_GroupingByExactY ==
    GroupingCall =>
        \A layouts \in { last.input.layouts } :
        \A rows \in { RowsOf(last.ret, last.input.mode) } :
        \A byRow \in { RowsOf(serializeByRow(layouts, last.input.ties), "ByRow") } :
            /\ \A r \in 1 .. Len(rows) :
                   /\ rows[r].characters # << >>
                   /\ \A k \in 1 .. Len(rows[r].characters) :
                          rows[r].characters[k].y = rows[r].y
            /\ \A r, q \in 1 .. Len(rows) : r # q => rows[r].y # rows[q].y
            /\ \A i \in 1 .. Len(layouts) :
                   OccurrencesInRows(rows, 1, layouts[i])
                       = Cardinality({j \in 1 .. Len(layouts) : layouts[j] = layouts[i]})
            /\ \A r \in 1 .. Len(rows) : \A k \in 1 .. Len(rows[r].characters) :
                   \E i \in 1 .. Len(layouts) : layouts[i] = rows[r].characters[k]
            /\ rows = byRow

(* a Full serialization of a list that holds one record twice and a record *)
(* one unit below it: two lines, the first with both copies                *)
C23_Witness ==
    /\ GroupingCall
    /\ last.input.mode = "Full"
    /\ Len(last.input.layouts) = 3
    /\ last.input.layouts[1] = last.input.layouts[3]
    /\ last.input.layouts[2].y = last.input.layouts[1].y + 1
    /\ Len(RowsOf(last.ret, "Full")) = 2
    /\ RowsOf(last.ret, "Full")[1].characters
           = << last.input.layouts[1], last.input.layouts[1] >>
    /\ RowsOf(last.ret, "Full")[2].characters = << last.input.layouts[2] >>

(* the lines of a Simple or Full output, each with its characters *)
LinesOf(out, mode) ==
    CASE mode = "Simple" -> out.lines
      [] mode = "Full" ->
             LET lines == out.pages[1].blocks[1].lines
             IN  [r \in 1 .. Len(lines) |->
                     [y |-> lines[r].y, baseline |-> lines[r].baseline,
                      height |-> lines[r].height, width |-> lines[r].width,
                      characters |-> RunCharacters(lines[r].runs, 1)]]

(* the greatest member of a nonempty set of integers *)
Greatest(S) ==
    CHOOSE m \in S : \A n \in S : n <= m

(* a serialization in one of the modes that produce lines *)
LinesCall ==
    last.op = "serialize" /\ last.input.mode \in {"Simple", "Full"}

(* C24: for every line produced in Simple and Full mode, height is the     *)
(* maximum character height in the line, baseline is the maximum character *)
(* baseline, and width equals the rightmost character's right edge         *)
(* (x + width) minus the leftmost character's left edge (x), for all       *)
(* integer positions and sizes of the records.  The right edge is taken as *)
(* the greatest right edge of the line's characters.                       *)
C24_LineExtents ==
    LinesCall =>
        \A lines \in { LinesOf(last.ret, last.input.mode) } :
            \A r \in 1 .. Len(lines) :
                \A chars \in { lines[r].characters } :
                    /\ lines[r].height
                           = Greatest({chars[k].height : k \in 1 .. Len(chars)})
                    /\ lines[r].baseline
                           = Greatest({chars[k].baseline : k \in 1 .. Len(chars)})
                    /\ lines[r].width
                           = Greatest({chars[k].x + chars[k].width : k \in 1 .. Len(chars)})
                             - SetMin({chars[k].x : k \in 1 .. Len(chars)})

(* the places in a line's characters at which a run of runs begins *)
RECURSIVE RunStarts(_, _, _)
RunStarts(runs, k, before) ==
    IF k > Len(runs) THEN {}
    ELSE {before + 1} \cup RunStarts(runs, k + 1, before + Len(runs[k].characters))

(* a Full serialization *)
FullCall ==
    last.op = "serialize" /\ last.input.mode = "Full"

(* C25: in Full mode each line's characters, taken in ascending x, are     *)
(* partitioned into maximal runs: a new run starts at a character exactly  *)
(* when its style fingerprint (family, size, weight, style, text color,    *)
(* background color and every decoration sub-field: underline, overline,   *)
(* line-through, color, style, thickness) differs from the immediately     *)
(* preceding character; a line of five characters with fingerprints        *)
(* A,A,A,B,B yields exactly two runs split between the third and fourth    *)
(* character.                                                              *)
C25_RunsByFingerprint ==
    FullCall =>
        \A lines \in { last.ret.pages[1].blocks[1].lines } :
            \A r \in 1 .. Len(lines) :
                \A chars \in { RunCharacters(lines[r].runs, 1) } :
                \A starts \in { RunStarts(lines[r].runs, 1, 0) } :
                    /\ \A k \in 1 .. Len(lines[r].runs) :
                           lines[r].runs[k].characters # << >>
                    /\ \A i \in 1 .. Len(chars) - 1 : chars[i].x <= chars[i + 1].x
                    /\ \A i \in 2 .. Len(chars) :
                           i \in starts <=> chars[i].style # chars[i - 1].style
                    /\ last.input.layouts = FiveOnALine =>
                           /\ Len(lines[r].runs) = 2
                           /\ starts = {1, 4}

(* a serialization of the empty record list *)
EmptyListCall ==
    last.op = "serialize" /\ last.input.layouts = << >>

(* C26: serializing an empty record list never fails and yields empty      *)
(* structural output in every mode: an empty array for Flat and ByRow, a   *)
(* document with zero lines for Simple, and for Full one page with one     *)
(* block containing zero lines.                                            *)
C26_EmptyListOutput ==
    EmptyListCall =>
        CASE last.input.mode = "Flat"   -> last.ret = << >>
          [] last.input.mode = "ByRow"  -> last.ret = << >>
          [] last.input.mode = "Simple" -> last.ret.lines = << >>
          [] last.input.mode = "Full"   ->
                 /\ Len(last.ret.pages) = 1
                 /\ Len(last.ret.pages[1].blocks) = 1
                 /\ last.ret.pages[1].blocks[1].lines = << >>

(* the empty list has been serialized in Full mode: a document with the    *)
(* viewport and one page                                                   *)
C26_Witness ==
    /\ EmptyListCall
    /\ last.input.mode = "Full"
    /\ last.ret.viewport = ViewportOf(800)
    /\ Len(last.ret.pages) = 1
    /\ last.ret.pages[1].blocks[1].lines = << >>
    /\ last.ret.pages[1].blocks[1].height = 0

(* a call of parseMode *)
ParseModeCall ==
    last.op = "parseMode"

(* C27: the mode string selects the output shape as follows: "full"        *)
(* selects Full, "simple" selects Simple, "byRow" or "byrow" selects       *)
(* ByRow, and every other string as well as an absent (null) mode selects  *)
(* Flat without raising an error.                                          *)
C27_ModeSelection ==
    ParseModeCall =>
        \A modeStr \in { last.input.mode } :
            /\ last.ret \in OutputModes
            /\ last.ret = "Full" <=> (modeStr.nonnull /\ modeStr.str = "full")
            /\ last.ret = "Simple" <=> (modeStr.nonnull /\ modeStr.str = "simple")
            /\ last.ret = "ByRow" <=> (modeStr.nonnull /\ modeStr.str \in {"byRow", "byrow"})
            /\ last.ret = "Flat" <=>
                   (~modeStr.nonnull
                        \/ modeStr.str \notin {"full", "simple", "byRow", "byrow"})

(* parseMode has been given "FULL" and has selected Flat *)
C27_Witness ==
    /\ ParseModeCall
    /\ last.input.mode = ModeStr("FULL")
    /\ last.ret = "Flat"

----------------------------------------------------------------------------
(* parseHTML and the WasmContainer it lays the document out with.  The     *)
(* layout engine (litehtml) is an external collaborator: between the       *)
(* construction of the container and the end of the draw it calls the      *)
(* container back, in an order and with arguments the document decides.    *)
(* The container is a local of parseHTML and is held in frame.             *)

(* face->size->metrics.height >> 6 after FT_Set_Pixel_Sizes; the sym face  *)
(* reports none                                                            *)
FTSizeHeight(c, size) ==
    IF c = "sym" THEN 0 ELSE size + 2

(* face->size->metrics.ascender >> 6 *)
FTSizeAscender(c, size) ==
    size - 3

(* abs(face->size->metrics.descender >> 6) *)
FTSizeDescender(c, size) ==
    5

(* getFontMetrics(fontId, fontSize, metrics): the typefaces it leaves, the *)
(* value it returns and the ascent, descent and height of metrics          *)
getFontMetrics(fonts, fontId, fontSize) ==
    IF fontId \notin DOMAIN fonts \/ fonts[fontId].face = 0
         \/ ~setFontSizeOk(fonts[fontId], fontSize)
    THEN [fonts |-> fonts, ret |-> FALSE,
          ascent |-> fontSize, descent |-> fontSize \div 4,
          height |-> fontSize + fontSize \div 4]
    ELSE [fonts  |-> [fonts EXCEPT ![fontId].currentSize = fontSize],
          ret    |-> TRUE,
          ascent |-> IF FTSizeHeight(fonts[fontId].data, fontSize) # 0
                     THEN FTSizeAscender(fonts[fontId].data, fontSize)
                     ELSE fontSize,
          descent |-> IF FTSizeHeight(fonts[fontId].data, fontSize) # 0
                      THEN FTSizeDescender(fonts[fontId].data, fontSize)
                      ELSE fontSize \div 4,
          height |-> IF FTSizeHeight(fonts[fontId].data, fontSize) # 0
                     THEN FTSizeHeight(fonts[fontId].data, fontSize)
                     ELSE fontSize + fontSize \div 4]

(* getFontName(fontId) *)
getFontName(fonts, fontId) ==
    IF fontId \in DOMAIN fonts THEN fonts[fontId].name ELSE << >>

(* variant: a wrong continuation byte steps over the whole sequence *)
decodeUtf8Char_WholeSequence(text, i) ==
    IF ByteAt(text, i) = 0
    THEN [codepoint |-> 0, next |-> i, charStr |-> << >>]
    ELSE IF LeadLength(text[i]) = 0
    THEN [codepoint |-> 65533, next |-> i + 1, charStr |-> << 239, 191, 189 >>]
    ELSE LET bytes == LeadLength(text[i])
             r     == ReadContinuation(text, i, 1, bytes, LeadBits(text[i]))
         IN  IF r.next = i + bytes
             THEN [codepoint |-> r.codepoint, next |-> r.next,
                   charStr |-> SubSeq(text, i, i + bytes - 1)]
             ELSE [codepoint |-> 65533, next |-> i + bytes,
                   charStr |-> << 239, 191, 189 >>]

(* decodeUtf8Char(text, charStr) with text pointing at the byte of index   *)
(* i: the codepoint returned, the index text is left at and charStr.  A    *)
(* wrong lead or continuation byte steps over one byte and gives U+FFFD.   *)
decodeUtf8Char(text, i) ==
    IF ByteAt(text, i) = 0
    THEN [codepoint |-> 0, next |-> i, charStr |-> << >>]
    ELSE IF LeadLength(text[i]) = 0
    THEN [codepoint |-> 65533, next |-> i + 1, charStr |-> << 239, 191, 189 >>]
    ELSE LET bytes == LeadLength(text[i])
             r     == ReadContinuation(text, i, 1, bytes, LeadBits(text[i]))
         IN  IF r.next = i + bytes
             THEN [codepoint |-> r.codepoint, next |-> r.next,
                   charStr |-> SubSeq(text, i, i + bytes - 1)]
             ELSE [codepoint |-> 65533, next |-> i + 1,
                   charStr |-> << 239, 191, 189 >>]

(* a litehtml::font_description: the members create_font reads *)
FontDescription(family, weight, italic, thickness) ==
    [family |-> family, size |-> 16, weight |-> weight, italic |-> italic,
     decoration_thickness |-> thickness]

(* a name no typeface has with a weight out of range, and the latin       *)
(* face's family name as a bold italic with a thick decoration line        *)
FontDescriptions ==
    { FontDescription(<< "z" >>, 1000, FALSE, 0),
      FontDescription(<< "L", "t" >>, 700, TRUE, 2) }

(* WasmContainer(viewportWidth, viewportHeight) *)
WasmContainer(viewportWidth, viewportHeight) ==
    [m_viewportWidth |-> viewportWidth, m_viewportHeight |-> viewportHeight,
     m_fonts |-> EmptyMap, m_charLayouts |-> << >>]

(* the position of parseHTML while the engine may call the container *)
InLayout ==
    pc \in {"parse_create", "parse_render"}

(* the registry and the container when a container call began *)
ContainerCall(op, hFont, ret) ==
    [Call(op, hFont, 0, 0, ret, Pre(0))
        EXCEPT !.snap = [m_fonts |-> frame.m_fonts,
                         m_charLayouts |-> frame.m_charLayouts,
                         instances |-> m_fontInstances]]

(* create_font: fontWeight *)
FontWeightOf(weight) ==
    IF weight < 100 \/ weight > 900 THEN 400 ELSE weight

(* create_font: the FontInfoInternal stored under the handle *)
FontInfoInternal(fontHandle, fontId, descr) ==
    [fontHandle |-> fontHandle, fontId |-> fontId, fontSize |-> descr.size,
     fontWeight |-> FontWeightOf(descr.weight),
     bold |-> FontWeightOf(descr.weight) >= 700, italic |-> descr.italic,
     fontFamily |-> getFontName(m_fonts, fontId),
     decorationThickness |-> descr.decoration_thickness]

(* create_font: what is written to *fm, from getFontMetrics when it        *)
(* returns true and the default metrics of the else branch when not        *)
FontMetricsBlock(fonts, fontId, fontSize) ==
    LET metrics == getFontMetrics(fonts, fontId, fontSize)
    IN  IF metrics.ret
        THEN [height |-> metrics.height, ascent |-> metrics.ascent,
              descent |-> metrics.descent]
        ELSE [height |-> fontSize, ascent |-> (fontSize * 3) \div 4,
              descent |-> fontSize \div 4]

(* WasmContainer::create_font(descr, doc, fm) with fm not null *)
create_font(descr) ==
    LET fontId == resolveFontFamilyId(m_fonts, m_defaultFontId, descr.family)
        usedId == HandleFontId(m_fonts, m_defaultFontId, fontId)
        sized  == getFontMetrics(m_fonts, fontId, descr.size).fonts
    IN  /\ InLayout
        /\ m_nextFontHandle <= MaxHandle
        /\ IF usedId = 0
           THEN /\ UNCHANGED << m_fonts, m_fontInstances, m_nextFontHandle, frame >>
                /\ last' = [ContainerCall("create_font", 0, 0)
                               EXCEPT !.input = [descr |-> descr]]
           ELSE /\ m_nextFontHandle' = m_nextFontHandle + 1
                /\ m_fontInstances' =
                       MapPut(m_fontInstances, m_nextFontHandle,
                              [fontId |-> usedId, fontSize |-> descr.size,
                               bold |-> FontWeightOf(descr.weight) >= 700,
                               italic |-> descr.italic])
                /\ m_fonts' = sized
                /\ frame' = [frame EXCEPT !.m_fonts =
                                MapPut(@, m_nextFontHandle,
                                       FontInfoInternal(m_nextFontHandle, fontId, descr))]
                /\ last' = [ContainerCall("create_font", m_nextFontHandle,
                                          m_nextFontHandle)
                               EXCEPT !.input =
                                   [descr |-> descr,
                                    fm |-> FontMetricsBlock(m_fonts, fontId,
                                                            descr.size)]]
        /\ UNCHANGED << m_library, m_nextFontId, m_defaultFontId, m_memoryWarningIssued,
                        cacheVars, heapVars, pc, written, issued, parserVars >>

(* WasmContainer::delete_font(hFont) *)
delete_font(hFont) ==
    /\ pc = "parse_render"
    /\ IF hFont \in DOMAIN frame.m_fonts
       THEN /\ m_fontInstances' =
                   MapErase(m_fontInstances, {frame.m_fonts[hFont].fontHandle})
            /\ frame' = [frame EXCEPT !.m_fonts = MapErase(@, {hFont})]
       ELSE UNCHANGED << m_fontInstances, frame >>
    /\ last' = ContainerCall("delete_font", hFont, 0)
    /\ UNCHANGED << m_library, m_fonts, m_nextFontId, m_defaultFontId, m_nextFontHandle,
                    m_memoryWarningIssued, cacheVars, heapVars, pc, written, issued,
                    parserVars >>

(* WasmContainer::text_width(text, hFont): getTextWidth on the typeface    *)
(* and size remembered for the handle                                      *)
text_width(text, hFont) ==
    /\ pc = "parse_render"
    /\ m_hits + m_misses < MaxQueries
    /\ IF text = << >> \/ hFont \notin DOMAIN frame.m_fonts
       THEN /\ UNCHANGED << m_fonts, cacheVars, written >>
            /\ last' = [ContainerCall("text_width", hFont, 0)
                           EXCEPT !.input = [text |-> text]]
       ELSE \E st \in { TextLoop(WidthState, frame.m_fonts[hFont].fontId, text, 1,
                                 frame.m_fonts[hFont].fontSize) } :
                /\ m_fonts' = st.fonts
                /\ m_fontCaches' = st.caches
                /\ m_hits' = st.hits
                /\ m_misses' = st.misses
                /\ written' = st.written
                /\ last' = [ContainerCall("text_width", hFont, st.total)
                               EXCEPT !.input = [text |-> text]]
    /\ UNCHANGED << m_library, m_nextFontId, m_defaultFontId, m_fontInstances,
                    m_nextFontHandle, m_memoryWarningIssued, heapVars, ctlVars, issued,
                    parserVars >>

(* draw_text: the CharLayout built for a character *)
CharLayout(charStr, x, y, width, metrics, fontInfo, color) ==
    [character |-> charStr, x |-> x, y |-> y, width |-> width,
     height |-> metrics.height, baseline |-> y + metrics.ascent,
     fontId |-> fontInfo.fontId,
     style |-> [fontFamily |-> fontInfo.fontFamily, fontSize |-> fontInfo.fontSize,
                fontWeight |-> fontInfo.fontWeight,
                fontStyle |-> IF fontInfo.italic THEN "italic" ELSE "normal",
                color |-> color, backgroundColor |-> "#00000000",
                textDecoration |->
                    [underline |-> FALSE, overline |-> FALSE, lineThrough |-> FALSE,
                     color |-> color, style |-> "solid",
                     thickness |-> IF fontInfo.decorationThickness > 0
                                   THEN fontInfo.decorationThickness ELSE 1]]]

(* draw_text: currentX += charWidth *)
CursorAfter(currentX, charWidth) ==
    currentX + charWidth

(* draw_text: the while loop with p at the byte of index i; st are the     *)
(* registry members getCharWidth works on, layouts is m_charLayouts        *)
RECURSIVE DrawLoop(_, _, _, _, _, _, _, _, _)
DrawLoop(st, layouts, text, i, currentX, baseY, metrics, fontInfo, color) ==
    IF ByteAt(text, i) = 0
    THEN [st |-> st, layouts |-> layouts]
    ELSE LET d == decodeUtf8Char(text, i)
         IN  IF d.codepoint = 0
             THEN DrawLoop(st, layouts, text, d.next, currentX, baseY, metrics,
                           fontInfo, color)
             ELSE LET after     == AddCharWidth(st, fontInfo.fontId, d.codepoint,
                                                fontInfo.fontSize)
                      charWidth == after.total - st.total
                  IN  DrawLoop(after,
                               Append(layouts,
                                      CharLayout(d.charStr, currentX, baseY, charWidth,
                                                 metrics, fontInfo, color)),
                               text, d.next, CursorAfter(currentX, charWidth), baseY,
                               metrics, fontInfo, color)

(* WasmContainer::draw_text(hdc, text, hFont, color, pos) *)
draw_text(text, hFont, color, pos) ==
    /\ pc = "parse_render"
    /\ m_hits + m_misses < MaxQueries
    /\ Len(frame.m_charLayouts) < MaxRecords
    /\ IF text = << >> \/ hFont \notin DOMAIN frame.m_fonts
       THEN UNCHANGED << m_fonts, cacheVars, written, frame >>
       ELSE \E fontInfo \in { frame.m_fonts[hFont] } :
            \E metrics \in { getFontMetrics(m_fonts, fontInfo.fontId, fontInfo.fontSize) } :
            \E r \in { DrawLoop([WidthState EXCEPT !.fonts = metrics.fonts],
                                frame.m_charLayouts, text, 1, pos.x, pos.y, metrics,
                                fontInfo, color) } :
                /\ m_fonts' = r.st.fonts
                /\ m_fontCaches' = r.st.caches
                /\ m_hits' = r.st.hits
                /\ m_misses' = r.st.misses
                /\ written' = r.st.written
                /\ frame' = [frame EXCEPT !.m_charLayouts = r.layouts]
    /\ last' = [ContainerCall("draw_text", hFont, 0)
                   EXCEPT !.input = [text |-> text, color |-> color, pos |-> pos],
                          !.snap = [m_fonts |-> frame.m_fonts,
                                    m_charLayouts |-> frame.m_charLayouts,
                                    instances |-> m_fontInstances,
                                    fonts |-> m_fonts, caches |-> m_fontCaches]]
    /\ UNCHANGED << m_library, m_nextFontId, m_defaultFontId, m_fontInstances,
                    m_nextFontHandle, m_memoryWarningIssued, heapVars, pc, issued,
                    parserVars >>

(* an HTML string by what parseHTML looks at: the pointer and strlen *)
HtmlString(nonnull, length) ==
    [nonnull |-> nonnull, length |-> length]

MAX_HTML_SIZE ==
    10485760

(* a null pointer, the empty string, a document of the largest size        *)
(* allowed and one a byte longer                                           *)
HtmlStrings ==
    { HtmlString(FALSE, 0), HtmlString(TRUE, 0),
      HtmlString(TRUE, MAX_HTML_SIZE), HtmlString(TRUE, MAX_HTML_SIZE + 1) }

ViewportWidths ==
    {0, 800}

(* the mode strings parseHTML is called with *)
ParseModes ==
    { NullModeStr, ModeStr("full") }

(* variant: a failed result holds no error *)
ParseResultFail_NoError(code) ==
    ParseResult

(* ParseResult::fail(code, message) *)
ParseResultFail(code) ==
    [ParseResult EXCEPT !.errors = << code >>]

(* variant: a warning is counted as an error *)
addWarning_AsError(result, code) ==
    [result EXCEPT !.errors = Append(@, code), !.success = FALSE]

(* ParseResult::addWarning(code, message) *)
addWarning(result, code) ==
    [result EXCEPT !.warnings = Append(@, code)]

(* ParseResult::addError(code, message) *)
addError(result, code) ==
    [result EXCEPT !.errors = Append(@, code), !.success = FALSE]

(* variant: parseHTML begins with the result the call before it left *)
ResetResult_Kept(result) ==
    result

(* "g_lastParseResult = ParseResult()" at the head of parseHTML *)
ResetResult(result) ==
    ParseResult

(* allocateString("[]"), the allocation taken to succeed *)
FailureSentinel ==
    "[]"

(* the input validation of parseHTML: the error code, "" when it passes *)
ValidationError(htmlString, viewportWidth) ==
    IF ~htmlString.nonnull THEN "InvalidInput"
    ELSE IF htmlString.length = 0 THEN "EmptyHtml"
    ELSE IF viewportWidth <= 0 THEN "InvalidViewportWidth"
    ELSE IF htmlString.length > MAX_HTML_SIZE THEN "HtmlTooLarge"
    ELSE ""

(* the registry as a parseHTML call found it *)
ParseSnapshot ==
    [fonts |-> m_fonts, def |-> m_defaultFontId, mem |-> getTotalMemoryUsage(m_fonts),
     instances |-> m_fontInstances, latch |-> m_memoryWarningIssued]

(* a completed parseHTML call; failure is how the layout failed, "" when   *)
(* it did not; layouts are the records the container had collected         *)
ParseCall(htmlString, viewportWidth, mode, failure, layouts, ret, pre, snap) ==
    [Call("parseHTML", 0, 0, 0, ret, pre)
        EXCEPT !.input = [htmlString |-> htmlString, viewportWidth |-> viewportWidth,
                          mode |-> mode, failure |-> failure, layouts |-> layouts],
               !.snap = snap]

(* ~WasmContainer: deleteFontHandle for every handle of m_fonts *)
InstancesAfterContainer(instances, containerFonts) ==
    MapErase(instances, {containerFonts[h].fontHandle : h \in DOMAIN containerFonts})

(* parseHTML up to the call of createFromString; a parse begins while the  *)
(* queries and handles of the model are not used up                        *)
parseHTML(htmlString, viewportWidth, mode) ==
    /\ pc = "idle"
    /\ m_hits + m_misses < MaxQueries
    /\ m_nextFontHandle <= MaxHandle
    /\ IF ValidationError(htmlString, viewportWidth) # ""
       THEN /\ g_lastParseResult' =
                   ParseResultFail(ValidationError(htmlString, viewportWidth))
            /\ last' = ParseCall(htmlString, viewportWidth, mode, "", << >>,
                                 FailureSentinel, Pre(0), ParseSnapshot)
            /\ g_lastMetrics' = ParseMetrics
            /\ UNCHANGED ctlVars
       ELSE /\ g_lastParseResult' = ResetResult(g_lastParseResult)
            /\ g_lastMetrics' = [ParseMetrics EXCEPT !.inputSize = htmlString.length]
            /\ pc' = "parse_create"
            /\ frame' = [op |-> "parseHTML", htmlString |-> htmlString,
                         viewportWidth |-> viewportWidth, mode |-> mode,
                         pre |-> Pre(0), snap |-> ParseSnapshot,
                         m_fonts |-> WasmContainer(viewportWidth, 10000).m_fonts,
                         m_charLayouts |->
                             WasmContainer(viewportWidth, 10000).m_charLayouts]
            /\ UNCHANGED last
    /\ UNCHANGED << registryVars, cacheVars, heapVars, written, issued, g_isDebug >>

(* createFromString returns a document: render and draw follow *)
parseHTML_document ==
    /\ pc = "parse_create"
    /\ pc' = "parse_render"
    /\ UNCHANGED << registryVars, cacheVars, heapVars, frame, last, written, issued,
                    parserVars >>

(* the ways a parse fails after validation: createFromString returns no    *)
(* document, or a std::exception or something else is thrown inside try    *)
LayoutFailures ==
    {"DocumentCreationFailed", "InternalError", "UnknownError"}

(* parseHTML leaves through "if (!doc)" or a catch clause; the container   *)
(* is destroyed on the way out.  The throw is taken to come from render or *)
(* draw, before the characters are counted.                                *)
parseHTML_fail(code) ==
    /\ InLayout
    /\ code = "DocumentCreationFailed" => pc = "parse_create"
    /\ g_lastParseResult' = ParseResultFail(code)
    /\ m_fontInstances' = InstancesAfterContainer(m_fontInstances, frame.m_fonts)
    /\ last' = ParseCall(frame.htmlString, frame.viewportWidth, frame.mode, code,
                         frame.m_charLayouts, FailureSentinel, frame.pre, frame.snap)
    /\ pc' = "idle"
    /\ frame' = NoFrame
    /\ UNCHANGED << m_library, m_fonts, m_nextFontId, m_defaultFontId, m_nextFontHandle,
                    m_memoryWarningIssued, cacheVars, heapVars, written, issued,
                    g_lastMetrics, g_isDebug >>

(* create_font leaves by an exception after createFontHandle returned: a   *)
(* std::bad_alloc from the copy of the family name into fontInfo or from   *)
(* the insertion of fontInfo into m_fonts.  It passes through the engine   *)
(* to the catch clause of parseHTML; the container is destroyed on the way *)
(* and does not know the handle.                                           *)
create_font_throw(descr) ==
    LET fontId == resolveFontFamilyId(m_fonts, m_defaultFontId, descr.family)
        usedId == HandleFontId(m_fonts, m_defaultFontId, fontId)
        sized  == getFontMetrics(m_fonts, fontId, descr.size).fonts
    IN  /\ InLayout
        /\ m_nextFontHandle <= MaxHandle
        /\ usedId # 0
        /\ m_nextFontHandle' = m_nextFontHandle + 1
        /\ m_fontInstances' =
               InstancesAfterContainer(
                   MapPut(m_fontInstances, m_nextFontHandle,
                          [fontId |-> usedId, fontSize |-> descr.size,
                           bold |-> FontWeightOf(descr.weight) >= 700,
                           italic |-> descr.italic]),
                   frame.m_fonts)
        /\ m_fonts' = sized
        /\ g_lastParseResult' = ParseResultFail("InternalError")
        /\ last' = ParseCall(frame.htmlString, frame.viewportWidth, frame.mode,
                             "InternalError", frame.m_charLayouts, FailureSentinel,
                             frame.pre, frame.snap)
        /\ pc' = "idle"
        /\ frame' = NoFrame
        /\ UNCHANGED << m_library, m_nextFontId, m_defaultFontId, m_memoryWarningIssued,
                        cacheVars, heapVars, written, issued, g_lastMetrics, g_isDebug >>

(* parseHTML from getCharLayouts to the return of the JSON; ties is the    *)
(* order std::sort leaves characters of equal x in                         *)
parseHTML_serialize(ties) ==
    LET layouts    == frame.m_charLayouts
        jsonResult == Serialized(layouts, parseMode(frame.mode),
                                 ViewportOf(frame.viewportWidth), ties)
        succeeded  == [g_lastParseResult EXCEPT
                          !.success = TRUE, !.data = jsonResult,
                          !.characterCount = Len(layouts),
                          !.memoryUsed = getTotalMemoryUsage(m_fonts),
                          !.metricsEnabled = TRUE]
        noChars    == IF layouts = << >>
                      THEN addWarning(succeeded, "InvalidInput") ELSE succeeded
        overMemory == IF getTotalMemoryUsage(m_fonts) > MEMORY_WARNING_THRESHOLD
                      THEN addWarning(noChars, "FontMemoryExceeded") ELSE noChars
    IN  /\ pc = "parse_render"
        /\ g_lastParseResult' = overMemory
        /\ g_lastMetrics' = [g_lastMetrics EXCEPT !.characterCount = Len(layouts)]
        /\ m_memoryWarningIssued' =
               LatchAfterCheck(m_fonts, m_memoryWarningIssued, MEMORY_WARNING_THRESHOLD)
        /\ m_fontInstances' = InstancesAfterContainer(m_fontInstances, frame.m_fonts)
        /\ last' = [ParseCall(frame.htmlString, frame.viewportWidth, frame.mode, "",
                              layouts, jsonResult, frame.pre, frame.snap)
                       EXCEPT !.warned = WarnsOnCheck(m_fonts, m_memoryWarningIssued,
                                                      MEMORY_WARNING_THRESHOLD)]
        /\ pc' = "idle"
        /\ frame' = NoFrame
        /\ UNCHANGED << m_library, m_fonts, m_nextFontId, m_defaultFontId,
                        m_nextFontHandle, cacheVars, heapVars, written, issued,
                        g_isDebug >>

(* destroy(): clearAllFonts and the reset of the last result *)
destroy ==
    /\ pc = "idle"
    /\ m_fontCaches' = CacheClearAll(m_fontCaches)
    /\ written' = EmptyMap
    /\ liveFaces' = ReleaseFaces(liveFaces, m_fonts, DOMAIN m_fonts)
    /\ liveBuffers' = liveBuffers \ DOMAIN m_fonts
    /\ m_fonts' = EmptyMap
    /\ m_fontInstances' = EmptyMap
    /\ m_defaultFontId' = 0
    /\ m_memoryWarningIssued' = FALSE
    /\ m_nextFontId' = NextIdAfterClear(m_nextFontId)
    /\ g_lastMetrics' = ParseMetrics
    /\ g_lastParseResult' = ParseResult
    /\ g_isDebug' = FALSE
    /\ last' = Call("destroy", 0, 0, 0, 0, Pre(0))
    /\ UNCHANGED << m_library, m_nextFontHandle, m_hits, m_misses, ctlVars, issued >>

(* the texts the engine draws: A and U+4E2D, the two-byte form 0xC0 0x80   *)
(* between A and 0, none                                                   *)
DrawTexts ==
    { << 65, 228, 184, 173 >>, << 65, 192, 128, 48 >>, << >> }

(* the texts the engine measures *)
MeasuredTexts ==
    { << 65 >> }

(* litehtml::position: the members draw_text reads *)
Positions ==
    { [x |-> 7, y |-> 20] }

(* the binaries loaded before the first parse, the latin one first *)
ParsePayloads ==
    { p \in PayloadsOf({"latin", "cjk"}) : p.content \in {"latin", "cjk"} }

ParseNext ==
    \/ /\ last.op \in {"none", "loadFont"}
       /\ \E p \in ParsePayloads :
              /\ p.content = "latin" => m_fonts = EmptyMap
              /\ loadFont(p, << >>, TRUE)
    \/ \E htmlString \in HtmlStrings, viewportWidth \in ViewportWidths,
          mode \in ParseModes : parseHTML(htmlString, viewportWidth, mode)
    \/ parseHTML_document
    \/ \E code \in LayoutFailures : parseHTML_fail(code)
    \/ \E descr \in FontDescriptions : create_font(descr)
    \/ \E descr \in FontDescriptions : create_font_throw(descr)
    \/ \E hFont \in Handles : delete_font(hFont)
    \/ \E text \in MeasuredTexts, hFont \in Handles : text_width(text, hFont)
    \/ \E text \in DrawTexts, hFont \in Handles, pos \in Positions :
           draw_text(text, hFont, "#000000ff", pos)
    \/ /\ pc = "parse_render"
       /\ \E ties \in TieOrders(Len(frame.m_charLayouts)) : parseHTML_serialize(ties)
    \/ destroy

ParseSpec ==
    Init /\ [][ParseNext]_vars

----------------------------------------------------------------------------
(* Claims about parseHTML and the container, checked under ParseSpec *)

(* the widths getCharWidth returns for the codepoints cps from index k on, *)
(* each queried in turn on the members st                                  *)
RECURSIVE MeasuredWidths(_, _, _, _, _)
MeasuredWidths(st, fontId, cps, k, fontSize) ==
    IF k > Len(cps) THEN << >>
    ELSE LET after == AddCharWidth(st, fontId, cps[k], fontSize)
         IN  << after.total - st.total >>
                 \o MeasuredWidths(after, fontId, cps, k + 1, fontSize)

(* the most recent call is a draw_text: the container is as it left it *)
DrawCall ==
    last.op = "draw_text"

(* the draw_text call was given a text and a handle the container knows *)
DrawCallKnown ==
    /\ DrawCall
    /\ last.input.text # << >>
    /\ last.arg \in DOMAIN last.snap.m_fonts

(* the members the draw_text call measured its first character on *)
DrawCallState ==
    [fonts   |-> getFontMetrics(last.snap.fonts, last.snap.m_fonts[last.arg].fontId,
                                last.snap.m_fonts[last.arg].fontSize).fonts,
     caches  |-> last.snap.caches, hits |-> 0, misses |-> 0,
     written |-> EmptyMap, total |-> 0]

(* the records after the first before are one per codepoint of cps, laid   *)
(* side by side from the origin of the call with the handle's font         *)
RecordsFollow(before, after, cps) ==
    \A fontInfo \in { last.snap.m_fonts[last.arg] } :
    \A widths \in { MeasuredWidths(DrawCallState, fontInfo.fontId, cps, 1,
                                   fontInfo.fontSize) } :
        /\ Len(after) = Len(before) + Len(cps)
        /\ SubSeq(after, 1, Len(before)) = before
        /\ \A k \in 1 .. Len(cps) :
               \A r \in { after[Len(before) + k] } :
                   /\ r.x = IF k = 1 THEN last.input.pos.x
                            ELSE after[Len(before) + k - 1].x
                                     + after[Len(before) + k - 1].width
                   /\ r.width = widths[k]
                   /\ r.y = last.input.pos.y
                   /\ r.fontId = fontInfo.fontId
                   /\ r.style.fontSize = fontInfo.fontSize
                   /\ r.style.fontWeight = fontInfo.fontWeight

(* C30: draw_text with a known handle appends exactly one record per       *)
(* decoded codepoint in text order; the first record's x is the origin x,  *)
(* each following record's x equals the previous record's x plus the       *)
(* previous record's width (the width measured for that codepoint), every  *)
(* record has the origin y, and every record carries the font id, size and *)
(* weight remembered for the handle at font creation; with an unknown      *)
(* handle or empty text it appends nothing.                                *)
C30_DrawTextRecords ==
    DrawCall =>
        IF DrawCallKnown
        THEN RecordsFollow(last.snap.m_charLayouts, frame.m_charLayouts,
                           DecodedFrom(last.input.text, 1))
        ELSE frame.m_charLayouts = last.snap.m_charLayouts

(* a parseHTML call has returned and nothing was called since *)
ParseReturned ==
    pc = "idle" /\ last.op = "parseHTML"

(* the call was given an input parseHTML rejects, or its layout failed *)
ParseFailed ==
    /\ ParseReturned
    /\ \/ ~last.input.htmlString.nonnull
       \/ last.input.htmlString.length = 0
       \/ last.input.viewportWidth <= 0
       \/ last.input.htmlString.length > 10 * 1024 * 1024
       \/ last.input.failure # ""

(* what identifies a loaded typeface: its name, binary, face and size in   *)
(* memory                                                                  *)
TypefacesOf(fonts) ==
    [id \in DOMAIN fonts |->
        [name |-> fonts[id].name, data |-> fonts[id].data, face |-> fonts[id].face,
         memoryUsage |-> fonts[id].memoryUsage]]

(* C28: a parseHTML call that fails (null or empty HTML, non-positive      *)
(* viewport width, HTML larger than 10 MB, document creation failure, or   *)
(* an exception during layout) returns the failure sentinel, records       *)
(* success=false with an error, and leaves the previously loaded           *)
(* typefaces, the default typeface and the total font memory unchanged.    *)
C28_FailedParse ==
    ParseFailed =>
        /\ last.ret = "[]"
        /\ g_lastParseResult.success = FALSE
        /\ Len(g_lastParseResult.errors) >= 1
        /\ TypefacesOf(m_fonts) = TypefacesOf(last.snap.fonts)
        /\ m_defaultFontId = last.snap.def
        /\ getTotalMemoryUsage(m_fonts) = last.snap.mem

(* an exception has ended a parse that had created a font and drawn two    *)
(* characters with it: a typeface is loaded, its cache holds their widths  *)
C28_Witness ==
    /\ ParseFailed
    /\ last.input.failure = "InternalError"
    /\ Len(last.input.layouts) = 2
    /\ m_defaultFontId = 1
    /\ 1 \in DOMAIN m_fontCaches
    /\ m_fonts # last.snap.fonts
    /\ g_lastParseResult.errors = << "InternalError" >>

(* the last parse result holds the warning code *)
HasWarning(code) ==
    \E i \in 1 .. Len(g_lastParseResult.warnings) : g_lastParseResult.warnings[i] = code

(* a parseHTML call has returned after completing its layout *)
ParseCompleted ==
    ParseReturned /\ ~ParseFailed

(* C29: warnings never block a successful result: a parse that completes   *)
(* layout records success=true and returns its data even when it adds the  *)
(* 'no characters extracted' warning or the 'memory threshold exceeded'    *)
(* warning, and in every reachable last-parse result success=true implies  *)
(* that the error list is empty.                                           *)
C29_WarningsDoNotBlock ==
    /\ g_lastParseResult.success => g_lastParseResult.errors = << >>
    /\ ParseCompleted =>
           /\ g_lastParseResult.success
           /\ g_lastParseResult.data = last.ret
           /\ \E ties \in TieOrders(Len(last.input.layouts)) :
                  last.ret = Serialized(last.input.layouts, parseMode(last.input.mode),
                                        ViewportOf(last.input.viewportWidth), ties)
           /\ HasWarning("InvalidInput") <=> last.input.layouts = << >>
           /\ HasWarning("FontMemoryExceeded")
                  <=> getTotalMemoryUsage(m_fonts) > 50 * 1024 * 1024

(* a parse in Full mode with two large typefaces loaded has completed      *)
(* without a character: a successful result with both warnings            *)
C29_Witness ==
    /\ ParseCompleted
    /\ last.input.mode = ModeStr("full")
    /\ g_lastParseResult.success
    /\ g_lastParseResult.warnings = << "InvalidInput", "FontMemoryExceeded" >>
    /\ g_lastParseResult.data.pages[1].blocks[1].lines = << >>
    /\ Cardinality(DOMAIN m_fonts) = 2

----------------------------------------------------------------------------
(* The cache interface on pixel sizes and codepoints that use the whole    *)
(* width of their types                                                    *)

(* (fontSize, codepoint) pairs: two that differ in the low bits of the     *)
(* size; a negative size and the size with the same low 16 bits; a pair    *)
(* and the pair with the size's bit moved 16 places into the codepoint; a  *)
(* size that differs from the first pair's above bit 15 only              *)
KeyList ==
    << << 16, 65 >>, << 15, 65 >>, << -1, 65 >>, << 65535, 65 >>, << 1, 65 >>,
       << 0, 65601 >>, << 65552, 65 >> >>

KeyNext ==
    \/ \E i \in 1 .. Len(KeyList) : cacheGetCharWidth(1, KeyList[i][1], KeyList[i][2])
    \/ \E i \in 1 .. Len(KeyList) : cacheSetCharWidth(1, KeyList[i][1], KeyList[i][2], i)

KeySpec ==
    Init /\ [][KeyNext]_vars

----------------------------------------------------------------------------
(* Claim about the inner cache key, checked under KeySpec *)

(* C33: two (pixel size, codepoint) pairs that differ in the size or in    *)
(* the codepoint have different 64-bit keys, so the cache holds for every  *)
(* pair the width last set for that pair and nothing for a pair never set: *)
(* a set under one pair does not change what a get returns for another.    *)
C33_KeyCollisionFree ==
    /\ \A i, j \in 1 .. Len(KeyList) :
           i # j => makeKey(KeyList[i][1], KeyList[i][2])
                        # makeKey(KeyList[j][1], KeyList[j][2])
    /\ \A i \in 1 .. Len(KeyList) :
           CacheLookup(m_fontCaches, 1, KeyList[i][1], KeyList[i][2])
               = IF << 1, KeyList[i][1], KeyList[i][2] >> \in DOMAIN written
                 THEN written[<< 1, KeyList[i][1], KeyList[i][2] >>]
                 ELSE NOT_CACHED
    /\ last.op = "cache.getCharWidth" =>
           last.ret = IF << 1, last.size, last.cp >> \in DOMAIN written
                      THEN written[<< 1, last.size, last.cp >>]
                      ELSE NOT_CACHED

(* a get has returned the width set for (1, 65) while (0, 65601), the      *)
(* negative size and the size 65535 hold other widths                      *)
C33_Witness ==
    /\ last.op = "cache.getCharWidth"
    /\ last.size = 1
    /\ last.cp = 65
    /\ last.ret = 5
    /\ {<< 1, 0, 65601 >>, << 1, -1, 65 >>, << 1, 65535, 65 >>} \subseteq DOMAIN written

----------------------------------------------------------------------------
(* Memory and diagnostics accessors *)

(* MultiFontManager::getFontMemoryUsage(fontId) *)
getFontMemoryUsage(fonts, fontId) ==
    IF fontId \in DOMAIN fonts THEN fonts[fontId].memoryUsage ELSE 0

(* the typeface ids in the order std::map iterates them *)
RECURSIVE IdsAscending(_)
IdsAscending(ids) ==
    IF ids = {} THEN << >>
    ELSE << SetMin(ids) >> \o IdsAscending(ids \ {SetMin(ids)})

(* MultiFontManager::getLoadedFontsJson() *)
getLoadedFontsJson(fonts, def) ==
    [i \in 1 .. Cardinality(DOMAIN fonts) |->
        LET id == IdsAscending(DOMAIN fonts)[i]
        IN  [id |-> fonts[id].id, name |-> fonts[id].name,
             memoryUsage |-> fonts[id].memoryUsage, isDefault |-> fonts[id].id = def]]

(* MultiFontManager::getMemoryMetricsJson() *)
getMemoryMetricsJson(fonts, instances) ==
    [totalMemoryUsage |-> getTotalMemoryUsage(fonts),
     fontCount |-> Cardinality(DOMAIN fonts),
     fontHandleCount |-> Cardinality(DOMAIN instances),
     memoryThreshold |-> MEMORY_WARNING_THRESHOLD,
     exceedsThreshold |-> getTotalMemoryUsage(fonts) > MEMORY_WARNING_THRESHOLD,
     fonts |-> [i \in 1 .. Cardinality(DOMAIN fonts) |->
                   LET id == IdsAscending(DOMAIN fonts)[i]
                   IN  [id |-> fonts[id].id, name |-> fonts[id].name,
                        memoryUsage |-> fonts[id].memoryUsage]]]

(* FontMetricsCache::getHitRate(): the quotient as numerator and           *)
(* denominator, -1 over 1 when there was no query                          *)
getHitRate(hits, misses) ==
    IF hits + misses = 0 THEN << -1, 1 >> ELSE << hits, hits + misses >>

(* FontMetricsCache::getMemoryUsage() with the sizes of a 32-bit build:    *)
(* sizeof(FontMetricsCache) 20, sizeof(FontCache) 12, sizeof(int) 4 and a *)
(* pointer 4                                                               *)
getMemoryUsage(caches) ==
    20 + 12 * Cardinality(DOMAIN caches)
       + (8 + 4 + 32) * CountEntries(caches, DOMAIN caches)
       + Cardinality(DOMAIN caches) * (4 + 4 + 32)

(* the "cache" object of getCacheStats and getDetailedMetrics; a negative  *)
(* hit rate is written as null, here the empty tuple                       *)
CacheStatsJson(caches, hits, misses) ==
    [hits |-> hits, misses |-> misses,
     entries |-> CountEntries(caches, DOMAIN caches),
     hitRate |-> IF getHitRate(hits, misses)[1] >= 0
                 THEN getHitRate(hits, misses) ELSE << >>,
     memoryUsage |-> getMemoryUsage(caches)]

(* the "memory" object of getMetrics *)
MemoryJson(fonts) ==
    [totalFontMemory |-> getTotalMemoryUsage(fonts),
     fontCount |-> Cardinality(DOMAIN fonts),
     exceedsThreshold |-> getTotalMemoryUsage(fonts) > MEMORY_WARNING_THRESHOLD]

(* an accessor that reads and returns: nothing but the record of the call  *)
(* changes                                                                 *)
ReadCall(op, arg, ret) ==
    /\ pc = "idle"
    /\ last' = Call(op, arg, 0, 0, ret, Pre(arg))
    /\ UNCHANGED << registryVars, cacheVars, heapVars, ctlVars, written, issued,
                    parserVars >>

(* an accessor that calls checkMemoryThreshold() on the way *)
CheckingCall(op, ret) ==
    /\ pc = "idle"
    /\ m_memoryWarningIssued' =
           LatchAfterCheck(m_fonts, m_memoryWarningIssued, MEMORY_WARNING_THRESHOLD)
    /\ last' = [Call(op, 0, 0, 0, ret, Pre(0))
                   EXCEPT !.warned = WarnsOnCheck(m_fonts, m_memoryWarningIssued,
                                                  MEMORY_WARNING_THRESHOLD)]
    /\ UNCHANGED << m_library, m_fonts, m_nextFontId, m_defaultFontId, m_fontInstances,
                    m_nextFontHandle, cacheVars, heapVars, ctlVars, written, issued,
                    parserVars >>

(* getTotalMemoryUsage() of the exported interface *)
totalMemoryUsage ==
    ReadCall("getTotalMemoryUsage", 0, getTotalMemoryUsage(m_fonts))

(* MultiFontManager::getFontMemoryUsage(fontId) called *)
fontMemoryUsage(fontId) ==
    ReadCall("getFontMemoryUsage", fontId, getFontMemoryUsage(m_fonts, fontId))

(* getLoadedFonts() *)
getLoadedFonts ==
    ReadCall("getLoadedFonts", 0, getLoadedFontsJson(m_fonts, m_defaultFontId))

(* variant: reading the statistics resets the counters *)
getCacheStats_Reset ==
    /\ pc = "idle"
    /\ m_hits' = 0
    /\ m_misses' = 0
    /\ last' = Call("getCacheStats", 0, 0, 0,
                    CacheStatsJson(m_fontCaches, m_hits, m_misses), Pre(0))
    /\ UNCHANGED << registryVars, m_fontCaches, heapVars, ctlVars, written, issued,
                    parserVars >>

(* getCacheStats() *)
getCacheStats ==
    ReadCall("getCacheStats", 0, CacheStatsJson(m_fontCaches, m_hits, m_misses))

(* getMemoryMetrics() *)
getMemoryMetrics ==
    CheckingCall("getMemoryMetrics", getMemoryMetricsJson(m_fonts, m_fontInstances))

(* getMetrics() *)
getMetrics ==
    CheckingCall("getMetrics",
                 [characterCount |-> g_lastMetrics.characterCount,
                  inputSize |-> g_lastMetrics.inputSize,
                  memory |-> MemoryJson(m_fonts)])

(* getDetailedMetrics() *)
getDetailedMetrics ==
    CheckingCall("getDetailedMetrics",
                 [performance |-> g_lastMetrics,
                  memory |-> [totalFontMemory |-> getTotalMemoryUsage(m_fonts),
                              fontCount |-> Cardinality(DOMAIN m_fonts),
                              exceedsThreshold |-> getTotalMemoryUsage(m_fonts)
                                                       > MEMORY_WARNING_THRESHOLD,
                              threshold |-> 52428800],
                  cache |-> CacheStatsJson(m_fontCaches, m_hits, m_misses),
                  lastParseStatus |->
                      [success |-> g_lastParseResult.success,
                       errorCount |-> Len(g_lastParseResult.errors),
                       warningCount |-> Len(g_lastParseResult.warnings)]])

(* the accessors by the name their calls are recorded under *)
DiagnosticsCalls ==
    {"getTotalMemoryUsage", "getFontMemoryUsage", "checkMemoryThreshold",
     "getLoadedFonts", "getCacheStats", "getMemoryMetrics", "getMetrics",
     "getDetailedMetrics"}

(* loads of the large binary, width queries, handles, unloads and a        *)
(* rejected parse, with the accessors between them                         *)
DiagnosticsNext ==
    \/ \E p \in PayloadsOf({"cjk"}) : p.content = "cjk" /\ loadFont(p, << >>, TRUE)
    \/ \E cp \in QueryCodepoints : getCharWidth(1, cp, 16)
    \/ createFontHandle(1, 16, FALSE, FALSE)
    \/ \E id \in {1, 2} : unloadFont(id)
    \/ /\ g_lastParseResult = ParseResult
       /\ parseHTML(HtmlString(TRUE, 0), 800, NullModeStr)
    \/ totalMemoryUsage
    \/ \E id \in {1, 2} : fontMemoryUsage(id)
    \/ checkMemoryThreshold(MEMORY_WARNING_THRESHOLD)
    \/ getLoadedFonts
    \/ getCacheStats
    \/ getMemoryMetrics
    \/ getMetrics
    \/ getDetailedMetrics

DiagnosticsSpec ==
    Init /\ [][DiagnosticsNext]_vars

----------------------------------------------------------------------------
(* Claim about the diagnostics accessors, checked under DiagnosticsSpec *)

(* C31: a call of a diagnostics read accessor (total and per-typeface      *)
(* memory, threshold flag, cache statistics, loaded-font list, getMetrics, *)
(* getDetailedMetrics, getMemoryMetrics) leaves the typefaces, the         *)
(* default, the id and handle counters, the font instances, the cache      *)
(* entries, the hit and miss counters, the faces and buffers and the last  *)
(* parse result and metrics as they were; of the state only the warning    *)
(* latch may differ afterwards.                                            *)
C31_AccessorsReadOnly ==
    [][ (last'.op \in DiagnosticsCalls /\ pc = "idle" /\ pc' = "idle") =>
          UNCHANGED << m_library, m_fonts, m_nextFontId, m_defaultFontId,
                       m_fontInstances, m_nextFontHandle, m_fontCaches, m_hits,
                       m_misses, liveFaces, liveBuffers, g_lastParseResult,
                       g_lastMetrics, g_isDebug >>
      ]_vars

(* getDetailedMetrics has set the latch on a registry over the threshold   *)
(* that holds a cache entry, a counted miss, a font instance and the error *)
(* of a rejected parse                                                     *)
C31_Witness ==
    /\ last.op = "getDetailedMetrics"
    /\ last.warned
    /\ m_memoryWarningIssued
    /\ last.ret.cache.entries >= 1
    /\ last.ret.cache.misses >= 1
    /\ last.ret.lastParseStatus.errorCount = 1
    /\ DOMAIN m_fontInstances # {}

----------------------------------------------------------------------------
(* Font creation and drawing on typefaces FreeType gives no exact metrics  *)
(* for                                                                     *)

(* a family no typeface has, so that the default typeface is used, at the  *)
(* cjk face's strike and at a size it has no strike for                    *)
MetricsDescriptions ==
    { [FontDescription(<< "z" >>, 400, FALSE, 0) EXCEPT !.size = sz] : sz \in {15, 16} }

(* one typeface is loaded, then a document is laid out *)
MetricsNext ==
    \/ /\ m_fonts = EmptyMap
       /\ \E p \in PayloadsOf({"latin", "cjk", "sym"}) :
              p.content \in {"latin", "cjk", "sym"} /\ loadFont(p, << >>, TRUE)
    \/ /\ m_fonts # EmptyMap
       /\ parseHTML(HtmlString(TRUE, 12), 800, NullModeStr)
    \/ parseHTML_document
    \/ \E descr \in MetricsDescriptions : create_font(descr)
    \/ \E text \in MeasuredTexts, hFont \in Handles : text_width(text, hFont)
    \/ \E text \in {<< 65 >>, << 228, 184, 173 >>}, hFont \in Handles :
           draw_text(text, hFont, "#000000ff", [x |-> 7, y |-> 20])
    \/ /\ pc = "parse_render"
       /\ \E ties \in TieOrders(Len(frame.m_charLayouts)) : parseHTML_serialize(ties)

MetricsSpec ==
    Init /\ [][MetricsNext]_vars

----------------------------------------------------------------------------
(* Claim about the default metrics, checked under MetricsSpec *)

(* FreeType has no exact metrics for the binary at the size: the size      *)
(* cannot be set, or the face reports no line height for it                *)
ExactMetricsMissing(content, size) ==
    FTSetPixelSizesError(content, size) \/ FTSizeHeight(content, size) = 0

(* the most recent call is a create_font that returned a handle *)
CreatedFont ==
    /\ last.op = "create_font"
    /\ last.ret # 0
    /\ last.ret \in DOMAIN frame.m_fonts

(* the create_font call: the metrics block has the default ascent and      *)
(* descent when the typeface has no exact metrics at the size              *)
BlockHasDefaults ==
    CreatedFont =>
        \A info \in { frame.m_fonts[last.ret] } :
            ExactMetricsMissing(m_fonts[info.fontId].data, info.fontSize) =>
                /\ last.input.fm.ascent = (info.fontSize * 3) \div 4
                /\ last.input.fm.descent = info.fontSize \div 4

(* the draw_text call: the records it appended have the baseline of the    *)
(* default ascent when the typeface has no exact metrics at the size       *)
BaselineHasDefaults ==
    DrawCallKnown =>
        \A info \in { last.snap.m_fonts[last.arg] } :
            ExactMetricsMissing(m_fonts[info.fontId].data, info.fontSize) =>
                \A k \in Len(last.snap.m_charLayouts) + 1 .. Len(frame.m_charLayouts) :
                    frame.m_charLayouts[k].baseline
                        = last.input.pos.y + (info.fontSize * 3) \div 4

(* C32: when FreeType has no exact metrics for the resolved typeface at    *)
(* the size of a font instance, the metrics block create_font returns has  *)
(* ascent = size*3/4 and descent = size/4, and the records draw_text       *)
(* appends with that instance have the baseline y + size*3/4.              *)
C32_DefaultMetrics ==
    BlockHasDefaults /\ BaselineHasDefaults

----------------------------------------------------------------------------
(* Unloads among several typefaces that have cache entries and handles *)

UnloadNext ==
    \/ \E p \in PayloadsOf({"latin", "cjk"}) :
           p.content \in {"latin", "cjk"} /\ loadFont(p, << >>, TRUE)
    \/ \E id \in {1, 2} : getCharWidth(id, 65, 16)
    \/ \E id \in {1, 2} : createFontHandle(id, 16, FALSE, FALSE)
    \/ \E id \in FontIds : unloadFont(id)

UnloadSpec ==
    Init /\ [][UnloadNext]_vars

----------------------------------------------------------------------------
(* Claim about unloadFont, checked under UnloadSpec *)

(* C34: unloadFont(id) of a loaded typeface leaves what belongs to another *)
(* typeface as it was: every other registry entry and its memory figure,   *)
(* the inner cache map of every other id, and every font instance that     *)
(* refers to another id; and it adds nothing to the three maps.            *)
C34_UnloadTouchesOneTypeface ==
    [][ (last'.op = "unloadFont" /\ last'.arg \in DOMAIN m_fonts) =>
          /\ DOMAIN m_fonts' = DOMAIN m_fonts \ {last'.arg}
          /\ \A f \in DOMAIN m_fonts' :
                 /\ m_fonts'[f] = m_fonts[f]
                 /\ getFontMemoryUsage(m_fonts', f) = getFontMemoryUsage(m_fonts, f)
          /\ DOMAIN m_fontCaches' = DOMAIN m_fontCaches \ {last'.arg}
          /\ \A f \in DOMAIN m_fontCaches' : m_fontCaches'[f] = m_fontCaches[f]
          /\ DOMAIN m_fontInstances' =
                 {h \in DOMAIN m_fontInstances : m_fontInstances[h].fontId # last'.arg}
          /\ \A h \in DOMAIN m_fontInstances' : m_fontInstances'[h] = m_fontInstances[h]
      ]_vars

(* a typeface with a cache entry was unloaded while another typeface has a *)
(* cache entry and a font instance                                         *)
C34_Witness ==
    /\ last.op = "unloadFont"
    /\ last.arg \in last.pre.fonts
    /\ last.pre.cached
    /\ \E f \in DOMAIN m_fonts :
           /\ f \in DOMAIN m_fontCaches
           /\ \E h \in DOMAIN m_fontInstances : m_fontInstances[h].fontId = f

----------------------------------------------------------------------------
(* Claims about the state parseHTML leaves, checked under ParseSpec *)

(* C35: when a parseHTML call has returned, on the success path and on     *)
(* every failure path, the font instances of the registry are those the    *)
(* call found: every handle created during the call has been deleted, and  *)
(* the number of live handles is the number before the call.               *)
C35_HandlesDeletedAfterParse ==
    ParseReturned =>
        /\ m_fontInstances = last.snap.instances
        /\ Cardinality(DOMAIN m_fontInstances)
               = Cardinality(DOMAIN last.snap.instances)

(* the warnings a completed parse adds, in the order parseHTML adds them *)
WarningsOfCall ==
    (IF last.input.layouts = << >> THEN << "InvalidInput" >> ELSE << >>)
        \o (IF getTotalMemoryUsage(m_fonts) > 50 * 1024 * 1024
            THEN << "FontMemoryExceeded" >> ELSE << >>)

(* C36: after every parseHTML call the last-parse result reflects only     *)
(* that call: errors, warnings and data recorded by earlier calls never    *)
(* carry over, a failed call leaves exactly one error and no data, and a   *)
(* successful call leaves no error.                                        *)
C36_ResultOfLastCallOnly ==
    ParseReturned =>
        IF ParseFailed
        THEN /\ Len(g_lastParseResult.errors) = 1
             /\ g_lastParseResult.data = ""
             /\ g_lastParseResult.warnings = << >>
             /\ g_lastParseResult.characterCount = 0
             /\ ~g_lastParseResult.metricsEnabled
        ELSE /\ g_lastParseResult.errors = << >>
             /\ g_lastParseResult.data = last.ret
             /\ g_lastParseResult.warnings = WarningsOfCall
             /\ g_lastParseResult.characterCount = Len(last.input.layouts)

(* a parse that drew characters has completed: its result holds their      *)
(* serialization and neither an error nor a warning                        *)
C36_Witness ==
    /\ ParseCompleted
    /\ last.input.layouts # << >>
    /\ g_lastParseResult.data # ""
    /\ g_lastParseResult.errors = << >>
    /\ g_lastParseResult.warnings = << >>

----------------------------------------------------------------------------
(* Measuring and drawing the same text *)

(* the calls the engine makes on the container for one text, on a registry *)
(* of one or two typefaces; the texts are those of the width queries, the  *)
(* ill-formed ones among them                                              *)
AdvanceNext ==
    \/ /\ last.op \in {"none", "loadFont"}
       /\ \E p \in ParsePayloads :
              /\ p.content = "latin" => m_fonts = EmptyMap
              /\ loadFont(p, << >>, TRUE)
    \/ /\ m_fonts # EmptyMap
       /\ parseHTML(HtmlString(TRUE, 12), 800, NullModeStr)
    \/ parseHTML_document
    \/ \E descr \in FontDescriptions : create_font(descr)
    \/ \E text \in Texts, hFont \in Handles : text_width(text, hFont)
    \/ \E text \in Texts, hFont \in Handles :
           draw_text(text, hFont, "#000000ff", [x |-> 7, y |-> 20])

AdvanceSpec ==
    Init /\ [][AdvanceNext]_vars

----------------------------------------------------------------------------
(* Claim about the advance of draw_text, checked under AdvanceSpec *)

(* the sum of the widths of the records from index k on *)
RECURSIVE WidthsFrom(_, _)
WidthsFrom(layouts, k) ==
    IF k > Len(layouts) THEN 0 ELSE layouts[k].width + WidthsFrom(layouts, k + 1)

(* the advance of a draw_text of the text with the font, called on the     *)
(* registry members st                                                     *)
DrawnAdvanceOn(st, fontInfo, text) ==
    LET metrics == getFontMetrics(st.fonts, fontInfo.fontId, fontInfo.fontSize)
    IN  WidthsFrom(DrawLoop([st EXCEPT !.fonts = metrics.fonts], << >>, text, 1, 7, 20,
                            metrics, fontInfo, "#000000ff").layouts, 1)

(* the value of a text_width of the text with the font, called on the      *)
(* registry members st                                                     *)
TextWidthOn(st, fontInfo, text) ==
    TextLoop(st, fontInfo.fontId, text, 1, fontInfo.fontSize).total

(* the most recent call is a text_width *)
MeasureCall ==
    last.op = "text_width"

(* the handle of the most recent container call is one the container holds *)
HandleKnown ==
    last.arg \in DOMAIN last.snap.m_fonts

(* C37: for the same font handle and the same text, with no load or unload *)
(* in between, the total cursor advance produced by draw_text (the sum of  *)
(* the widths of the records it appends) equals the value returned by      *)
(* text_width, for every byte string including ones with invalid UTF-8.    *)
(* Stated for a text_width that follows the draw_text, for one that went   *)
(* before it, and for a draw_text that follows a text_width.               *)
C37_DrawnAdvanceIsTextWidth ==
    /\ DrawCall =>
           LET drawn == WidthsFrom(frame.m_charLayouts,
                                   Len(last.snap.m_charLayouts) + 1)
           IN  IF HandleKnown
               THEN /\ drawn = TextWidthOn(WidthState, last.snap.m_fonts[last.arg],
                                           last.input.text)
                    /\ drawn = TextWidthOn([WidthState EXCEPT
                                               !.fonts = last.snap.fonts,
                                               !.caches = last.snap.caches],
                                           last.snap.m_fonts[last.arg],
                                           last.input.text)
               ELSE drawn = 0
    /\ MeasureCall =>
           IF HandleKnown
           THEN last.ret = DrawnAdvanceOn(WidthState, last.snap.m_fonts[last.arg],
                                          last.input.text)
           ELSE last.ret = 0

(* a text with a three-byte lead followed by A has been drawn with a known *)
(* handle: two records, the replacement character and A                    *)
C37_Witness ==
    /\ DrawCall
    /\ HandleKnown
    /\ last.input.text = << 228, 65 >>
    /\ Len(frame.m_charLayouts) = Len(last.snap.m_charLayouts) + 2
    /\ WidthsFrom(frame.m_charLayouts, Len(last.snap.m_charLayouts) + 1) > 0

----------------------------------------------------------------------------
(* Claim about repeated width queries, checked under QuerySpec *)

(* getCharWidth(fontId, codepoint, fontSize) made on the typefaces and the *)
(* cache given: the members after it, the width returned as total          *)
RepeatedQuery(fonts, caches, fontId, codepoint, fontSize) ==
    AddCharWidth([fonts |-> fonts, caches |-> caches, hits |-> 0, misses |-> 0,
                  written |-> EmptyMap, total |-> 0],
                 fontId, codepoint, fontSize)

(* the step is the query getCharWidth(fontId, codepoint, fontSize) *)
QueryStep(fontId, codepoint, fontSize) ==
    /\ m_hits' + m_misses' = m_hits + m_misses + 1
    /\ last'.op = "getCharWidth"
    /\ last'.arg = fontId
    /\ last'.cp = codepoint
    /\ last'.size = fontSize

(* the query would find no width in the cache and would store the one it   *)
(* finds: it measures a glyph or takes the half width of a punctuation     *)
MeasuresAndStores(fontId, codepoint, fontSize) ==
    /\ CacheLookup(m_fontCaches, fontId, fontSize, codepoint) < 0
    /\ MeasureChar(m_fonts, fontId, codepoint, fontSize).store

(* What a step does to the query (fontId, codepoint, fontSize): the query  *)
(* itself returns the width it would have returned before the step; the    *)
(* width it would return is the same after the step as before; a query     *)
(* that measured is a hit afterwards, a hit stays a hit, and a query that  *)
(* is a hit changes the hit counter and nothing of the typefaces or the    *)
(* cache.                                                                  *)
StepKeepsQuery(fontId, codepoint, fontSize) ==
    /\ QueryStep(fontId, codepoint, fontSize) =>
           /\ last'.ret = RepeatedQuery(m_fonts, m_fontCaches, fontId, codepoint,
                                        fontSize).total
           /\ MeasuresAndStores(fontId, codepoint, fontSize) =>
                  CacheIsHit(m_fontCaches', fontId, fontSize, codepoint)
           /\ CacheIsHit(m_fontCaches, fontId, fontSize, codepoint) =>
                  /\ m_hits' = m_hits + 1
                  /\ UNCHANGED << m_fonts, m_fontCaches, m_misses >>
    /\ RepeatedQuery(m_fonts', m_fontCaches', fontId, codepoint, fontSize).total
           = RepeatedQuery(m_fonts, m_fontCaches, fontId, codepoint, fontSize).total
    /\ CacheIsHit(m_fontCaches, fontId, fontSize, codepoint) =>
           CacheIsHit(m_fontCaches', fontId, fontSize, codepoint)

(* C38 as stated: repeating a width query with the same (typeface id,      *)
(* codepoint, pixel size), with no unload or cache clear in between,       *)
(* returns the same width as the first call; and whenever the first call   *)
(* measured a glyph or took the punctuation half-width path, the second    *)
(* call is served as a cache hit without querying the face again.  Every   *)
(* step that is not an unload or a clear keeps every query.                *)
C38_RepeatSameWidth ==
    [][last'.op \notin {"unloadFont", "clearAllFonts"} =>
           \A fontId \in FontIds, codepoint \in QueryCodepoints, fontSize \in QuerySizes :
               StepKeepsQuery(fontId, codepoint, fontSize)]_vars

(* C38: the same with no load, unload or cache clear in between: a query   *)
(* made with the id the next loadFont returns gives the default width      *)
(* before that load and the measured width after it.                       *)
C38_RepeatSameWidthNoLoad ==
    [][last'.op \notin {"loadFont", "unloadFont", "clearAllFonts"} =>
           \A fontId \in FontIds, codepoint \in QueryCodepoints, fontSize \in QuerySizes :
               StepKeepsQuery(fontId, codepoint, fontSize)]_vars

(* the second query of A at 16 on the latin typeface is a hit that returns *)
(* the width the first stored                                              *)
C38_Witness ==
    /\ last.op = "getCharWidth"
    /\ last.arg = 1 /\ last.cp = 65 /\ last.size = 16
    /\ 1 \in DOMAIN m_fonts
    /\ m_fonts[1].data = "latin"
    /\ m_hits = 1
    /\ m_misses = 1
    /\ last.ret = 9

----------------------------------------------------------------------------
(* The loops of getTextWidth and draw_text, one iteration a step.  frame   *)
(* holds the locals of the loop: the text, the index p points at, and the  *)
(* total or the records and the cursor.                                    *)

MaxTextLen ==
    3

(* a byte of each kind the decoders tell apart: ASCII, a continuation      *)
(* byte, and the lead bytes of two, three and four bytes                   *)
DecodeBytes ==
    {65, 128, 192, 228, 240}

(* the texts of at most MaxTextLen bytes, and two of four bytes: U+1F600   *)
(* and the four-byte form of codepoint 0                                   *)
DecodeTexts ==
    UNION { [1 .. n -> DecodeBytes] : n \in 0 .. MaxTextLen }
        \cup { << 240, 159, 152, 128 >>, << 240, 128, 128, 128 >> }

(* getTextWidth(fontId, text, fontSize) up to the while loop; text is not  *)
(* null                                                                    *)
getTextWidth_enter(fontId, text, fontSize) ==
    /\ pc = "idle"
    /\ m_hits + m_misses < MaxQueries
    /\ pc' = "getTextWidth"
    /\ frame' = [op |-> "getTextWidth", fontId |-> fontId, text |-> text,
                 fontSize |-> fontSize, p |-> 1, totalWidth |-> 0,
                 pre |-> Pre(fontId), snap |-> << m_fonts, m_fontCaches >>]
    /\ UNCHANGED << registryVars, cacheVars, heapVars, last, written, issued,
                    parserVars >>

(* getTextWidth: one iteration of the while loop *)
getTextWidth_loop ==
    /\ pc = "getTextWidth"
    /\ ByteAt(frame.text, frame.p) # 0
    /\ \E d \in { decodeUtf8(frame.text, frame.p) } :
       \E st \in { IF d.codepoint # 0
                   THEN AddCharWidth(WidthState, frame.fontId, d.codepoint,
                                     frame.fontSize)
                   ELSE WidthState } :
           /\ m_fonts' = st.fonts
           /\ m_fontCaches' = st.caches
           /\ m_hits' = st.hits
           /\ m_misses' = st.misses
           /\ written' = st.written
           /\ frame' = [frame EXCEPT !.p = d.next, !.totalWidth = @ + st.total]
    /\ UNCHANGED << m_library, m_nextFontId, m_defaultFontId, m_fontInstances,
                    m_nextFontHandle, m_memoryWarningIssued, heapVars, pc, last,
                    issued, parserVars >>

(* getTextWidth: the loop ends at the NUL, totalWidth is returned *)
getTextWidth_return ==
    /\ pc = "getTextWidth"
    /\ ByteAt(frame.text, frame.p) = 0
    /\ pc' = "idle"
    /\ frame' = NoFrame
    /\ last' = [Call("getTextWidth", frame.fontId, frame.fontSize, 0,
                     frame.totalWidth, frame.pre)
                   EXCEPT !.input = [text |-> frame.text], !.snap = frame.snap]
    /\ UNCHANGED << registryVars, cacheVars, heapVars, written, issued, parserVars >>

(* draw_text(hdc, text, hFont, color, pos) up to the while loop: it        *)
(* returns at once for an empty text or a handle the container does not    *)
(* hold; outer are the locals of parseHTML                                 *)
draw_text_enter(text, hFont, color, pos) ==
    /\ pc = "parse_render"
    /\ m_hits + m_misses < MaxQueries
    /\ Len(frame.m_charLayouts) < MaxRecords
    /\ IF text = << >> \/ hFont \notin DOMAIN frame.m_fonts
       THEN /\ last' = [ContainerCall("draw_text", hFont, 0)
                           EXCEPT !.input = [text |-> text, color |-> color,
                                             pos |-> pos]]
            /\ UNCHANGED << m_fonts, pc, frame >>
       ELSE \E fontInfo \in { frame.m_fonts[hFont] } :
            \E metrics \in { getFontMetrics(m_fonts, fontInfo.fontId,
                                            fontInfo.fontSize) } :
                /\ m_fonts' = metrics.fonts
                /\ pc' = "draw_text"
                /\ frame' = [op |-> "draw_text", outer |-> frame, text |-> text,
                             hFont |-> hFont, color |-> color, pos |-> pos, p |-> 1,
                             currentX |-> pos.x, baseY |-> pos.y, metrics |-> metrics,
                             fontInfo |-> fontInfo,
                             m_charLayouts |-> frame.m_charLayouts]
                /\ UNCHANGED last
    /\ UNCHANGED << m_library, m_nextFontId, m_defaultFontId, m_fontInstances,
                    m_nextFontHandle, m_memoryWarningIssued, cacheVars, heapVars,
                    written, issued, parserVars >>

(* draw_text: one iteration of the while loop *)
draw_text_loop ==
    /\ pc = "draw_text"
    /\ ByteAt(frame.text, frame.p) # 0
    /\ \E d \in { decodeUtf8Char(frame.text, frame.p) } :
           IF d.codepoint = 0
           THEN /\ frame' = [frame EXCEPT !.p = d.next]
                /\ UNCHANGED << m_fonts, cacheVars, written >>
           ELSE \E st \in { AddCharWidth(WidthState, frame.fontInfo.fontId,
                                         d.codepoint, frame.fontInfo.fontSize) } :
                    /\ m_fonts' = st.fonts
                    /\ m_fontCaches' = st.caches
                    /\ m_hits' = st.hits
                    /\ m_misses' = st.misses
                    /\ written' = st.written
                    /\ frame' =
                           [frame EXCEPT
                               !.p = d.next,
                               !.currentX = CursorAfter(@, st.total),
                               !.m_charLayouts =
                                   Append(@, CharLayout(d.charStr, frame.currentX,
                                                        frame.baseY, st.total,
                                                        frame.metrics, frame.fontInfo,
                                                        frame.color))]
    /\ UNCHANGED << m_library, m_nextFontId, m_defaultFontId, m_fontInstances,
                    m_nextFontHandle, m_memoryWarningIssued, heapVars, pc, last,
                    issued, parserVars >>

(* draw_text: the loop ends at the NUL *)
draw_text_return ==
    /\ pc = "draw_text"
    /\ ByteAt(frame.text, frame.p) = 0
    /\ pc' = "parse_render"
    /\ frame' = [frame.outer EXCEPT !.m_charLayouts = frame.m_charLayouts]
    /\ last' = [Call("draw_text", frame.hFont, 0, 0, 0, Pre(0))
                   EXCEPT !.input = [text |-> frame.text, color |-> frame.color,
                                     pos |-> frame.pos],
                          !.snap = [m_fonts |-> frame.outer.m_fonts,
                                    m_charLayouts |-> frame.outer.m_charLayouts,
                                    instances |-> m_fontInstances]]
    /\ UNCHANGED << registryVars, cacheVars, heapVars, written, issued, parserVars >>

(* one typeface or none, then a text measured through the registry, or    *)
(* one typeface and a parse whose container creates one font and draws    *)
(* one text                                                                *)
DecodeNext ==
    \/ /\ m_fonts = EmptyMap
       /\ \E p \in PayloadsOf({"latin"}) : p.content = "latin" /\ loadFont(p, << >>, TRUE)
    \/ /\ last.op \in {"none", "loadFont"}
       /\ \E text \in DecodeTexts : getTextWidth_enter(1, text, 16)
    \/ getTextWidth_loop
    \/ getTextWidth_return
    \/ /\ last.op = "loadFont"
       /\ parseHTML(HtmlString(TRUE, 12), 800, NullModeStr)
    \/ parseHTML_document
    \/ /\ InLayout
       /\ frame.m_fonts = EmptyMap
       /\ \E descr \in FontDescriptions : create_font(descr)
    \/ /\ pc = "parse_render"
       /\ last.op # "draw_text"
       /\ \E text \in DecodeTexts, hFont \in Handles :
              draw_text_enter(text, hFont, "#000000ff", [x |-> 7, y |-> 20])
    \/ draw_text_loop
    \/ draw_text_return

DecodeSpec ==
    Init /\ [][DecodeNext]_vars

(* a loop that is entered runs its iterations and its exit *)
FairDecodeSpec ==
    /\ DecodeSpec
    /\ WF_vars(getTextWidth_loop)
    /\ WF_vars(getTextWidth_return)
    /\ WF_vars(draw_text_loop)
    /\ WF_vars(draw_text_return)

----------------------------------------------------------------------------
(* Claim about the decoding loops, checked under FairDecodeSpec *)

(* a loop of getTextWidth or draw_text is running *)
InLoop ==
    pc \in {"getTextWidth", "draw_text"}

(* p points at a byte of the text or at its terminating NUL *)
WithinText ==
    InLoop => frame.p \in 1 .. Len(frame.text) + 1

(* an iteration moves p forward by one to four bytes *)
IterationAdvances ==
    (InLoop /\ pc' = pc) => (frame'.p - frame.p) \in 1 .. 4

(* C39: textWidth and draw_text terminate on every NUL-terminated byte     *)
(* string: each decode step consumes at least one and at most four bytes   *)
(* and never advances past the terminating NUL, including on a multi-byte  *)
(* sequence truncated by the end of the string.                            *)
C39_DecodingTerminates ==
    /\ []WithinText
    /\ [][IterationAdvances]_vars
    /\ InLoop ~> ~InLoop

(* draw_text has stepped over the two bytes of a three-byte sequence cut   *)
(* short by the end of the text, one byte at a time, and is at the NUL     *)
C39_Witness ==
    /\ pc = "draw_text"
    /\ frame.text = << 228, 128 >>
    /\ frame.p = 3
    /\ Len(frame.m_charLayouts) = 2

----------------------------------------------------------------------------
(* destroy() after typefaces, queries, handles, parses and debug mode *)

(* setDebugMode(isDebug) *)
setDebugMode(isDebug) ==
    /\ pc = "idle"
    /\ g_isDebug' = isDebug
    /\ last' = Call("setDebugMode", 0, 0, 0, 0, Pre(0))
    /\ UNCHANGED << registryVars, cacheVars, heapVars, ctlVars, written, issued,
                    g_lastParseResult, g_lastMetrics >>

DestroyNext ==
    \/ \E p \in PayloadsOf({"latin", "cjk"}) :
           p.content \in {"latin", "cjk"} /\ loadFont(p, << >>, TRUE)
    \/ getCharWidth(1, 65, 16)
    \/ createFontHandle(1, 16, FALSE, FALSE)
    \/ \E isDebug \in BOOLEAN : setDebugMode(isDebug)
    \/ /\ g_lastParseResult = ParseResult
       /\ \E length \in {0, 12} : parseHTML(HtmlString(TRUE, length), 800, NullModeStr)
    \/ parseHTML_document
    \/ /\ pc = "parse_render"
       /\ \E ties \in TieOrders(Len(frame.m_charLayouts)) : parseHTML_serialize(ties)
    \/ destroy

DestroySpec ==
    Init /\ [][DestroyNext]_vars

----------------------------------------------------------------------------
(* Claim about destroy, checked under DestroySpec *)

(* destroy has returned and nothing was called since *)
Destroyed ==
    pc = "idle" /\ last.op = "destroy"

(* C40: destroy() resets all internal state: afterwards the parser is in   *)
(* the state of a freshly initialised one, with no typeface loaded, no     *)
(* default, no font instance handle, no cache entry, zeroed cache hit/miss *)
(* statistics, an empty last-parse result and metrics, and debug mode off. *)
C40_DestroyResetsAll ==
    Destroyed =>
        /\ m_fonts = EmptyMap
        /\ m_defaultFontId = 0
        /\ m_fontInstances = EmptyMap
        /\ CountEntries(m_fontCaches, DOMAIN m_fontCaches) = 0
        /\ m_hits = 0
        /\ m_misses = 0
        /\ g_lastParseResult = ParseResult
        /\ g_lastMetrics = ParseMetrics
        /\ g_isDebug = FALSE

====
